---- MODULE Spec2Model ----
(***************************************************************************)
(* vector-cli: the request/response pipeline.                              *)
(*                                                                         *)
(*   src/src/api/error.rs    ApiError, exit_code, from_response,           *)
(*                           ErrorResponse, parse_error_message            *)
(*   src/src/api/client.rs   ApiClient: new, headers, handle_response and  *)
(*                           the eight request operations                  *)
(*   src/src/main.rs         main, run, get_client                         *)
(*   src/src/output.rs       print_error, print_json, print_message        *)
(*                                                                         *)
(* A response body is its text together with the JSON value the text       *)
(* denotes (json is FALSE when it denotes none).  The text of a JSON body  *)
(* is rendered from the value, so the two always agree.  Strings are TLA+  *)
(* strings; format! and join are string concatenation.                     *)
(***************************************************************************)
EXTENDS Integers, Sequences, FiniteSets, TLC

(***************************************************************************)
(* Bounds of the model.                                                    *)
(***************************************************************************)
\* the largest number of fields of an `errors` mapping in a body
MaxErrFields == 2
\* the largest number of messages listed under one field
MaxMsgs == 2

(***************************************************************************)
(* JSON values (serde_json::Value), tagged so that they compare.           *)
(* An object is the sequence of its <<key, value>> members in text order;  *)
(* keys are distinct.                                                      *)
(***************************************************************************)
JNull == [t |-> "null"]
JStr(s) == [t |-> "str", s |-> s]
JNum(n) == [t |-> "num", n |-> n]
JBool(b) == [t |-> "bool", b |-> b]
JArr(a) == [t |-> "arr", a |-> a]
JObj(m) == [t |-> "obj", m |-> m]
\* a number with a fraction or an exponent, kept as its text (serde_json holds
\* it as f64)
JFloat(text) == [t |-> "float", s |-> text]

\* decimal text of a small integer (numbers in bodies are within -999..999)
Digit(d) == SubSeq("0123456789", d + 1, d + 1)
RECURSIVE NumText(_)
NumText(n) ==
    IF n < 0 THEN "-" \o NumText(0 - n)
    ELSE IF n < 10 THEN Digit(n)
    ELSE IF n < 100 THEN Digit(n \div 10) \o Digit(n % 10)
    ELSE Digit(n \div 100) \o Digit((n \div 10) % 10) \o Digit(n % 10)

RECURSIVE Render(_)
RECURSIVE RenderElems(_, _)
RECURSIVE RenderMembers(_, _)
\* the text of a JSON value (no string in the model needs escaping)
Render(v) ==
    CASE v.t = "null" -> "null"
      [] v.t = "str"  -> "\"" \o v.s \o "\""
      [] v.t = "num"  -> NumText(v.n)
      [] v.t = "float" -> v.s
      [] v.t = "bool" -> IF v.b THEN "true" ELSE "false"
      [] v.t = "arr"  -> "[" \o RenderElems(v.a, 1) \o "]"
      [] v.t = "obj"  -> "{" \o RenderMembers(v.m, 1) \o "}"
RenderElems(a, i) ==
    IF i > Len(a) THEN ""
    ELSE Render(a[i]) \o (IF i < Len(a) THEN ", " ELSE "") \o RenderElems(a, i + 1)
RenderMembers(m, i) ==
    IF i > Len(m) THEN ""
    ELSE "\"" \o m[i][1] \o "\": " \o Render(m[i][2])
         \o (IF i < Len(m) THEN ", " ELSE "") \o RenderMembers(m, i + 1)

\* a body whose text is JSON, and a body whose text is not
JsonBody(v) == [text |-> Render(v), json |-> TRUE, val |-> v]
TextBody(s) == [text |-> s, json |-> FALSE, val |-> JNull]

HasKey(v, k) == v.t = "obj" /\ \E i \in 1..Len(v.m) : v.m[i][1] = k
Get(v, k) == v.m[CHOOSE i \in 1..Len(v.m) : v.m[i][1] = k][2]

(***************************************************************************)
(* The response bodies the model draws from.                               *)
(***************************************************************************)
FieldNames == <<"domain", "php_version", "name", "url">>
MsgTexts == <<"The domain field is required.", "The selected value is invalid.",
              "must be unique", "is too long">>

\* a member that the object does not carry
Absent == [t |-> "absent"]
Member(k, v) == IF v.t = "absent" THEN <<>> ELSE << <<k, v>> >>
ObjectOf(message, errors, http_status) ==
    JObj(Member("message", message) \o Member("errors", errors)
         \o Member("http_status", http_status))

\* an `errors` mapping of n fields with k messages each (none under the first
\* field when firstEmpty)
ErrMapOf(n, k, firstEmpty) ==
    JObj([i \in 1..n |->
            <<FieldNames[i],
              JArr([j \in 1..(IF firstEmpty /\ i = 1 THEN 0 ELSE k) |-> JStr(MsgTexts[j])])>>])
ErrMaps ==
    {ErrMapOf(n, k, e) : n \in 0..MaxErrFields, k \in 0..MaxMsgs, e \in BOOLEAN}
\* `errors` values that are no mapping of field name -> list of strings
ErrOtherShapes ==
    { JArr(<<>>), JStr("denied"),
      JObj(<< <<"domain", JStr("is required")>> >>),
      JObj(<< <<"domain", JArr(<<JNum(1)>>)>> >>) }
MessageValues == {Absent, JNull, JStr("Site not found"), JNum(404)}
ErrorsValues == {Absent, JNull} \cup ErrMaps \cup ErrOtherShapes

\* error objects; http_status accompanies the bodies that have no `errors` member
ObjectBodies ==
    {JsonBody(ObjectOf(m, e, Absent)) : m \in MessageValues, e \in ErrorsValues}
    \cup {JsonBody(ObjectOf(m, Absent, JNum(404))) : m \in MessageValues}
\* JSON texts that are arrays or scalars
OtherJsonBodies ==
    {JsonBody(v) : v \in
        { JStr("Internal Server Error"), JNull, JNum(404), JArr(<<>>),
          JArr(<<JStr("Internal Server Error")>>),
          JArr(<<JStr("Internal Server Error"), JNull>>),
          JArr(<<JNull, ErrMapOf(1, 1, FALSE)>>),
          JArr(<<JStr("Site not found"), ErrMapOf(1, 1, FALSE), JNull>>) }}
\* bodies of successful responses: the envelope {data, meta?}
Site == JObj(<< <<"id", JStr("site_1")>>, <<"status", JStr("active")>> >>)
Meta(members) == JObj(members)
User == JObj(<< <<"id", JNum(7)>>, <<"name", JStr("Ada")>>, <<"email", JStr("ada@example.com")>> >>)
\* a page of sites under a given `meta` member
Page(meta) == JObj(<< <<"data", JArr(<<Site>>)>> >> \o Member("meta", meta))
\* `meta` members with a field missing, or holding what is no unsigned integer,
\* and a `meta` that is no object
OddMetas ==
    { Meta(<< <<"last_page", JNum(5)>>, <<"total", JNum(50)>> >>),
      Meta(<< <<"current_page", JNum(1)>>, <<"last_page", JNum(5)>>, <<"total", JStr("50")>> >>),
      Meta(<< <<"current_page", JNum(1)>>, <<"last_page", JNum(0 - 5)>>, <<"total", JNum(50)>> >>),
      Meta(<< <<"current_page", JFloat("1.0")>>, <<"last_page", JNum(5)>>, <<"total", JNum(50)>> >>),
      Meta(<< <<"current_page", JNum(1)>>, <<"last_page", JNum(5)>>, <<"total", JNull>> >>),
      Meta(<< <<"current_page", JNum(2)>>, <<"last_page", JNum(2)>>, <<"total", JNum(0)>> >>),
      JArr(<<JNum(1), JNum(5), JNum(50)>>), JNull }
EnvelopeBodies ==
    {JsonBody(v) : v \in
        { JObj(<< <<"data", JArr(<<>>)>> >>),
          JObj(<< <<"data", JArr(<<Site>>)>>,
                  <<"meta", Meta(<< <<"current_page", JNum(1)>>, <<"last_page", JNum(5)>>,
                                    <<"total", JNum(50)>> >>)>> >>),
          JObj(<< <<"data", JArr(<<Site>>)>>,
                  <<"meta", Meta(<< <<"current_page", JNum(1)>>, <<"last_page", JNum(1)>> >>)>> >>),
          JObj(<< <<"data", Site>> >>),
          JObj(<< <<"data", User>> >>),
          JObj(<< <<"data", JObj(<< <<"id", JStr("7")>>, <<"name", JStr("Ada")>>,
                                    <<"email", JStr("ada@example.com")>> >>)>> >>),
          JObj(<< <<"data", JObj(<< <<"success", JBool(TRUE)>>,
                                    <<"duration_ms", JNum(12)>> >>)>> >>),
          JObj(<< <<"data", JObj(<< <<"success", JBool(FALSE)>>,
                                    <<"error", JStr("Syntax error in dump")>> >>)>> >>) }}
PageBodies == {JsonBody(Page(m)) : m \in OddMetas}
\* texts that are not JSON
TextBodies == {TextBody("Internal Server Error"), TextBody(""), TextBody("<html>Bad Gateway</html>")}
Bodies == ObjectBodies \cup OtherJsonBodies \cup EnvelopeBodies \cup PageBodies \cup TextBodies

\* HTTP status codes: the success range 200..=299 and codes around every
\* boundary of from_response's match
Statuses == {200, 204, 299, 300, 400, 401, 402, 403, 404, 421, 422, 423, 499, 500,
             503, 599, 600}

(***************************************************************************)
(* serde: typed deserialization of ErrorResponse                           *)
(*   struct ErrorResponse { message: Option<String>,                       *)
(*                          errors: Option<HashMap<String, Vec<String>>> } *)
(***************************************************************************)
None == [some |-> FALSE]
Some(x) == [some |-> TRUE, v |-> x]
DeErr == [ok |-> FALSE]
DeOk(x) == [ok |-> TRUE, v |-> x]

\* Option<String>: a missing member and null are None, a string is Some,
\* any other value is a type error
de_opt_string(v) ==
    CASE v.t \in {"absent", "null"} -> DeOk(None)
      [] v.t = "str" -> DeOk(Some(v.s))
      [] OTHER -> DeErr

\* Vec<String>
IsStringList(v) == v.t = "arr" /\ \A j \in 1..Len(v.a) : v.a[j].t = "str"
\* HashMap<String, Vec<String>>
IsFieldListMap(v) == v.t = "obj" /\ \A i \in 1..Len(v.m) : IsStringList(v.m[i][2])

\* Option<HashMap<String, Vec<String>>>: the map is kept as the sequence of its
\* <<field, <<messages>>>> entries; the order the HashMap yields them in is
\* chosen where it is iterated
de_opt_errors(v) ==
    CASE v.t \in {"absent", "null"} -> DeOk(None)
      [] IsFieldListMap(v) ->
            DeOk(Some([i \in 1..Len(v.m) |->
                        <<v.m[i][1], [j \in 1..Len(v.m[i][2].a) |-> v.m[i][2].a[j].s]>>]))
      [] OTHER -> DeErr

Field(v, k) == IF HasKey(v, k) THEN Get(v, k) ELSE Absent

\* serde_json::from_str::<ErrorResponse>(body).  The derived Deserialize reads a
\* JSON object by field name (unknown members are ignored) and, as for every
\* derived struct, a JSON array of exactly its fields in declaration order
\* (serde_json's deserialize_struct hands '[' to the derived visit_seq).
\* One field of the wrong type fails the whole parse.
de_ErrorResponse(body) ==
    IF ~body.json THEN DeErr
    ELSE LET v == body.val
             fields == CASE v.t = "obj" -> <<Field(v, "message"), Field(v, "errors")>>
                         [] v.t = "arr" /\ Len(v.a) = 2 -> <<v.a[1], v.a[2]>>
                         [] OTHER -> <<>>
         IN IF fields = <<>> THEN DeErr
            ELSE LET m == de_opt_string(fields[1])
                     e == de_opt_errors(fields[2])
                 IN IF m.ok /\ e.ok
                    THEN DeOk([message |-> m.v, errors |-> e.v])
                    ELSE DeErr

(***************************************************************************)
(* src/src/api/error.rs                                                    *)
(***************************************************************************)
EXIT_SUCCESS == 0
EXIT_GENERAL_ERROR == 1
EXIT_AUTH_ERROR == 2
EXIT_VALIDATION_ERROR == 3
EXIT_NOT_FOUND == 4
EXIT_NETWORK_ERROR == 5

Kinds == {"Unauthorized", "Forbidden", "NotFound", "ValidationError", "ServerError",
          "NetworkError", "ConfigError", "Other"}
ApiError(kind, msg) == [kind |-> kind, msg |-> msg]

\* exit_code with ServerError left to the catch-all arm
exit_code_general(e) ==
    CASE e.kind \in {"Unauthorized", "Forbidden"} -> EXIT_AUTH_ERROR
      [] e.kind = "NotFound" -> EXIT_NOT_FOUND
      [] e.kind = "ValidationError" -> EXIT_VALIDATION_ERROR
      [] e.kind = "NetworkError" -> EXIT_NETWORK_ERROR
      [] OTHER -> EXIT_GENERAL_ERROR

exit_code(e) ==
    CASE e.kind \in {"Unauthorized", "Forbidden"} -> EXIT_AUTH_ERROR
      [] e.kind = "NotFound" -> EXIT_NOT_FOUND
      [] e.kind = "ValidationError" -> EXIT_VALIDATION_ERROR
      [] e.kind \in {"ServerError", "NetworkError"} -> EXIT_NETWORK_ERROR
      [] e.kind \in {"ConfigError", "Other"} -> EXIT_GENERAL_ERROR

\* #[error("...")]: the Display text of an error
to_string(e) ==
    CASE e.kind = "Unauthorized" -> "Authentication failed: " \o e.msg
      [] e.kind = "Forbidden" -> "Access denied: " \o e.msg
      [] e.kind = "NotFound" -> "Not found: " \o e.msg
      [] e.kind = "ValidationError" -> "Validation failed: " \o e.msg
      [] e.kind = "ServerError" -> "Server error: " \o e.msg
      [] e.kind = "NetworkError" -> "Network error: " \o e.msg
      [] e.kind = "ConfigError" -> "Configuration error: " \o e.msg
      [] e.kind = "Other" -> e.msg

RECURSIVE Join(_, _)
\* Vec<String>::join
Join(strs, sep) ==
    IF strs = <<>> THEN ""
    ELSE IF Len(strs) = 1 THEN strs[1]
    ELSE strs[1] \o sep \o Join(Tail(strs), sep)

\* the orders in which a HashMap of n entries can yield them: std's HashMap is
\* seeded per instance (RandomState), so each evaluation may get any of them
Perms(n) == {p \in [1..n -> 1..n] : \A i, j \in 1..n : p[i] = p[j] => i = j}
IterOrders(body) ==
    LET r == de_ErrorResponse(body)
    IN IF r.ok /\ r.v.errors.some THEN Perms(Len(r.v.errors.v)) ELSE Perms(0)

RECURSIVE error_messages(_, _, _)
\* errors.into_iter().flat_map(|(field, messages)| messages.into_iter().map(..))
\* from the i-th entry of the iteration order on
error_messages(errors, order, i) ==
    IF i > Len(order) THEN <<>>
    ELSE LET entry == errors[order[i]]
         IN [j \in 1..Len(entry[2]) |-> entry[1] \o ": " \o entry[2][j]]
            \o error_messages(errors, order, i + 1)

parse_error_message(body, order) ==
    LET r == de_ErrorResponse(body)
    IN IF r.ok
       THEN LET msgs == IF r.v.errors.some
                        THEN error_messages(r.v.errors.v, order, 1) ELSE <<>>
            IN IF r.v.errors.some /\ msgs # <<>> THEN Join(msgs, "; ")
               ELSE IF r.v.message.some THEN r.v.message.v
               ELSE body.text
       ELSE body.text

\* from_response with the half-open range 500..599 for the server errors
from_response_half_open(status, body, order) ==
    LET message == parse_error_message(body, order)
    IN CASE status = 401 -> ApiError("Unauthorized", message)
         [] status = 403 -> ApiError("Forbidden", message)
         [] status = 404 -> ApiError("NotFound", message)
         [] status = 422 -> ApiError("ValidationError", message)
         [] status \in 500..598 -> ApiError("ServerError", message)
         [] OTHER -> ApiError("Other", message)

from_response(status, body, order) ==
    LET message == parse_error_message(body, order)
    IN CASE status = 401 -> ApiError("Unauthorized", message)
         [] status = 403 -> ApiError("Forbidden", message)
         [] status = 404 -> ApiError("NotFound", message)
         [] status = 422 -> ApiError("ValidationError", message)
         [] status \in 500..599 -> ApiError("ServerError", message)
         [] OTHER -> ApiError("Other", message)

(***************************************************************************)
(* Result<T, ApiError>                                                     *)
(***************************************************************************)
Ok(x) == [ok |-> TRUE, v |-> x]
Err(e) == [ok |-> FALSE, e |-> e]
Unit == "()"

(***************************************************************************)
(* The local environment of one process run.                               *)
(***************************************************************************)
\* config.json as Config::load finds it
ConfigFiles ==
    { [st |-> "missing", api_url |-> None], [st |-> "unreadable", api_url |-> None],
      [st |-> "invalid", api_url |-> None], [st |-> "ok", api_url |-> None],
      [st |-> "ok", api_url |-> Some("http://localhost:8080")] }
\* credentials.json as Credentials::load finds it
CredentialsFiles ==
    { [st |-> "missing", api_key |-> None], [st |-> "unreadable", api_key |-> None],
      [st |-> "invalid", api_key |-> None], [st |-> "ok", api_key |-> None],
      [st |-> "ok", api_key |-> Some("vk_file_token")] }
\* VECTOR_API_KEY: unset, a usable token, or a value with a line break in it
EnvKeys == {None, Some("vk_env_token"), Some("vk_env\ntoken")}

(***************************************************************************)
(* src/src/config/store.rs, src/src/config/paths.rs                        *)
(***************************************************************************)
\* config_dir(): dirKnown is whether VECTOR_CONFIG_DIR, XDG_CONFIG_HOME or the
\* platform's config directory is there to be found
config_dir(dirKnown) ==
    IF dirKnown THEN Ok("vector")
    ELSE Err(ApiError("ConfigError", "Could not determine config directory"))

Config_load(file, dirKnown) ==
    IF ~config_dir(dirKnown).ok THEN config_dir(dirKnown)
    ELSE CASE file.st = "missing" -> Ok([api_url |-> None])
           [] file.st = "unreadable" ->
                Err(ApiError("ConfigError", "Failed to read config: Permission denied"))
           [] file.st = "invalid" ->
                Err(ApiError("ConfigError", "Failed to parse config: expected value"))
           [] file.st = "ok" -> Ok([api_url |-> file.api_url])

\* a Credentials::load that takes a file it cannot read or parse for no file
Credentials_load_lenient(file, dirKnown) ==
    IF ~config_dir(dirKnown).ok THEN config_dir(dirKnown)
    ELSE IF file.st = "ok" THEN Ok([api_key |-> file.api_key]) ELSE Ok([api_key |-> None])
Credentials_load(file, dirKnown) ==
    IF ~config_dir(dirKnown).ok THEN config_dir(dirKnown)
    ELSE CASE file.st = "missing" -> Ok([api_key |-> None])
           [] file.st = "unreadable" ->
                Err(ApiError("ConfigError", "Failed to read credentials: Permission denied"))
           [] file.st = "invalid" ->
                Err(ApiError("ConfigError", "Failed to parse credentials: expected value"))
           [] file.st = "ok" -> Ok([api_key |-> file.api_key])

(***************************************************************************)
(* src/src/commands/auth.rs                                                *)
(***************************************************************************)
\* a get_api_key that prefers the stored api_key
get_api_key_stored_first(envKey, creds) ==
    IF creds.api_key.some THEN creds.api_key ELSE envKey

\* std::env::var("VECTOR_API_KEY").ok().or_else(|| creds.api_key.clone())
get_api_key(envKey, creds) == IF envKey.some THEN envKey ELSE creds.api_key

(***************************************************************************)
(* src/src/api/client.rs                                                   *)
(***************************************************************************)
DEFAULT_BASE_URL == "https://api.builtfast.com"
ClientOps == {"get", "get_with_query", "post", "post_empty", "put", "put_empty",
              "delete", "post_file"}
Method(op) ==
    CASE op \in {"get", "get_with_query"} -> "GET"
      [] op \in {"post", "post_empty", "post_file"} -> "POST"
      [] op \in {"put", "put_empty"} -> "PUT"
      [] op = "delete" -> "DELETE"

\* ApiClient::new; engineOk is whether reqwest's Client::builder().build() succeeds
ApiClient_new(base_url, token, engineOk) ==
    IF ~engineOk THEN Err(ApiError("NetworkError", "builder error"))
    ELSE Ok([base_url |-> IF base_url.some THEN base_url.v ELSE DEFAULT_BASE_URL,
             token |-> token])

\* a set_token that leaves the client as it was
set_token_dropped(client, token) == client
set_token(client, token) == [client EXCEPT !.token = Some(token)]

\* HeaderValue::from_str: bytes below 32 other than tab, and 127, are refused
IsHeaderValue(s) == \A i \in 1..Len(s) : SubSeq(s, i, i) \notin {"\n", "\r"}

\* headers whose error tells the value that was refused
headers_echo(client) ==
    IF client.token.some /\ ~IsHeaderValue("Bearer " \o client.token.v)
    THEN Err(ApiError("ConfigError", "failed to parse header value: Bearer " \o client.token.v))
    ELSE Ok([accept |-> Some("application/json"),
             content_type |-> Some("application/json"),
             authorization |-> IF client.token.some THEN Some("Bearer " \o client.token.v)
                               ELSE None])

\* headers that leave the Authorization header out
headers_anonymous(client) ==
    Ok([accept |-> Some("application/json"),
        content_type |-> Some("application/json"),
        authorization |-> None])

headers(client) ==
    LET base == [accept |-> Some("application/json"),
                 content_type |-> Some("application/json"),
                 authorization |-> None]
    IN IF client.token.some
       THEN LET auth_value == "Bearer " \o client.token.v
            IN IF IsHeaderValue(auth_value)
               THEN Ok([base EXCEPT !.authorization = Some(auth_value)])
               ELSE Err(ApiError("ConfigError", "failed to parse header value"))
       ELSE Ok(base)

\* the Content-Type that RequestBuilder::multipart sets for its form
MultipartType == "multipart/form-data; boundary=<boundary>"

\* The part of an operation before send(): the request it builds, or the error
\* it returns without sending.  fileOk is whether post_file can open and read
\* its file.
build_request(client, op, path, fileOk) ==
    IF op = "post_file" /\ ~fileOk
    THEN Err(ApiError("Other", "Failed to open file: No such file or directory"))
    ELSE LET h == headers(client)
         IN IF ~h.ok THEN h
            ELSE Ok([method |-> Method(op), url |-> client.base_url \o path,
                     headers |-> IF op = "post_file"
                                 THEN [h.v EXCEPT !.content_type = Some(MultipartType)] ELSE h.v])

is_success(status) == status \in 200..299

\* serde_json's description of why a text is no JSON value
SerdeError(body) ==
    IF body.text = "" THEN "EOF while parsing a value at line 1 column 0"
    ELSE "expected value at line 1 column 1"

\* handle_response taking a 2xx body that is no JSON for null
handle_response_lenient(status, body, order) ==
    IF is_success(status)
    THEN IF body.json THEN Ok(body.val) ELSE Ok(JNull)
    ELSE Err(from_response(status, body, order))

\* handle_response::<Value> once the body text has been read
handle_response(status, body, order) ==
    IF is_success(status)
    THEN IF body.json THEN Ok(body.val)
         ELSE Err(ApiError("Other", "JSON parse error: " \o SerdeError(body)))
    ELSE Err(from_response(status, body, order))

\* serde_json::from_str::<UserResponse>: {data: {id: u64, name: String,
\* email: String}}.  A derived struct is read from an object by member name
\* (every member is required here) or from an array of exactly its fields.
de_u64(v) == IF v.t = "num" /\ v.n >= 0 THEN DeOk(v.n) ELSE DeErr
de_string(v) == IF v.t = "str" THEN DeOk(v.s) ELSE DeErr
de_UserData(v) ==
    LET fields == CASE v.t = "obj" /\ HasKey(v, "id") /\ HasKey(v, "name") /\ HasKey(v, "email")
                         -> <<Get(v, "id"), Get(v, "name"), Get(v, "email")>>
                     [] v.t = "arr" /\ Len(v.a) = 3 -> v.a
                     [] OTHER -> <<>>
    IN IF fields = <<>> THEN DeErr
       ELSE IF de_u64(fields[1]).ok /\ de_string(fields[2]).ok /\ de_string(fields[3]).ok
       THEN DeOk([id |-> fields[1].n, name |-> fields[2].s, email |-> fields[3].s])
       ELSE DeErr
de_UserResponse(v) ==
    LET fields == CASE v.t = "obj" /\ HasKey(v, "data") -> <<Get(v, "data")>>
                     [] v.t = "arr" /\ Len(v.a) = 1 -> v.a
                     [] OTHER -> <<>>
    IN IF fields = <<>> THEN DeErr
       ELSE IF de_UserData(fields[1]).ok THEN DeOk([data |-> de_UserData(fields[1]).v])
       ELSE DeErr

\* handle_response::<UserResponse>
handle_user_response(status, body, order) ==
    LET r == handle_response(status, body, order)
    IN IF ~r.ok THEN r
       ELSE IF de_UserResponse(r.v).ok THEN Ok(de_UserResponse(r.v).v)
       ELSE Err(ApiError("Other", "JSON parse error: invalid type or missing field"))

\* the failure to read the body mapped to Other
body_error_other == ApiError("Other", "error decoding response body")

\* what reqwest reports when send() fails, and when reading the body fails
SendFailures == {"dns", "connect", "tls", "timeout"}
send_error(why) == ApiError("NetworkError", "error sending request (" \o why \o ")")
body_error == ApiError("NetworkError", "error decoding response body")

(***************************************************************************)
(* src/src/main.rs: get_client                                             *)
(***************************************************************************)
\* a get_client that builds a client without a token when it finds none
get_client_anonymous(configFile, credsFile, envKey, dirKnown, engineOk) ==
    LET config == Config_load(configFile, dirKnown)
        creds == Credentials_load(credsFile, dirKnown)
    IN IF ~config.ok THEN config
       ELSE IF ~creds.ok THEN creds
       ELSE ApiClient_new(config.v.api_url, get_api_key(envKey, creds.v), engineOk)

get_client(configFile, credsFile, envKey, dirKnown, engineOk) ==
    LET config == Config_load(configFile, dirKnown)
        creds == Credentials_load(credsFile, dirKnown)
    IN IF ~config.ok THEN config
       ELSE IF ~creds.ok THEN creds
       ELSE LET token == get_api_key(envKey, creds.v)
            IN IF ~token.some
               THEN Err(ApiError("Unauthorized",
                        "Not logged in. Run 'vector auth login' to authenticate."))
               ELSE ApiClient_new(config.v.api_url, token, engineOk)

(***************************************************************************)
(* src/src/output.rs                                                       *)
(***************************************************************************)
\* a detect in which --no-json wins over --json
detect_no_json_first(json_flag, no_json_flag, tty) ==
    IF no_json_flag THEN "Table"
    ELSE IF json_flag THEN "Json"
    ELSE IF tty THEN "Table" ELSE "Json"

\* OutputFormat::detect; tty is atty::is(Stream::Stdout)
detect(json_flag, no_json_flag, tty) ==
    IF json_flag THEN "Json"
    ELSE IF no_json_flag THEN "Table"
    ELSE IF tty THEN "Table" ELSE "Json"

\* what each printing function writes: to standard output the first three,
\* to standard error the last. Every caller of print_json passes a
\* serde_json::Value (a decoded response or a json! literal), which
\* to_string_pretty always serializes, so the Err arm of print_json is not taken.
print_json(data) == Render(data)
print_message(message) == message
print_table == "<table>"
\* print_key_value, and a print_message whose text is formatted from the data
print_data == "<fields of data>"
print_error(message) == "Error: " \o message

\* Value indexing: Null for a missing member and for a value that is no object
Index(v, k) == IF HasKey(v, k) THEN Get(v, k) ELSE JNull
\* Value::as_u64
as_u64(v) == IF v.t = "num" /\ v.n >= 0 THEN Some(v.n) ELSE None

\* an extract_pagination that takes 0 for a field it does not find
extract_pagination_defaulted(value) ==
    IF ~HasKey(value, "meta") THEN None
    ELSE LET meta == Get(value, "meta")
             field(k) == IF HasKey(meta, k) /\ as_u64(Get(meta, k)).some THEN Get(meta, k).n
                         ELSE 0
         IN Some(<<field("current_page"), field("last_page"), field("total")>>)

extract_pagination(value) ==
    IF ~HasKey(value, "meta") THEN None
    ELSE LET meta == Get(value, "meta")
         IN IF ~HasKey(meta, "current_page") \/ ~as_u64(Get(meta, "current_page")).some
            THEN None
            ELSE IF ~HasKey(meta, "last_page") \/ ~as_u64(Get(meta, "last_page")).some
            THEN None
            ELSE IF ~HasKey(meta, "total") \/ ~as_u64(Get(meta, "total")).some
            THEN None
            ELSE Some(<<Get(meta, "current_page").n, Get(meta, "last_page").n,
                        Get(meta, "total").n>>)

\* the lines print_pagination writes
print_pagination(current_page, last_page, total) ==
    IF last_page > 1
    THEN << "\nPage " \o NumText(current_page) \o " of " \o NumText(last_page)
            \o " (" \o NumText(total) \o " total)" >>
    ELSE <<>>

(***************************************************************************)
(* src/src/commands: the resource commands.  Each one calls one client     *)
(* operation and renders its result; one command stands for each operation *)
(* and each way of rendering.                                              *)
(***************************************************************************)
Commands ==
    { [name |-> "site list", op |-> "get_with_query", path |-> "/api/v1/vector/sites",
       view |-> "list", text |-> "No sites found.", paged |-> TRUE],
      [name |-> "php-versions", op |-> "get", path |-> "/api/v1/vector/php-versions",
       view |-> "list", text |-> "No PHP versions available.", paged |-> FALSE],
      [name |-> "site show", op |-> "get", path |-> "/api/v1/vector/sites/site_1",
       view |-> "details", text |-> "", paged |-> FALSE],
      [name |-> "deploy rollback", op |-> "post",
       path |-> "/api/v1/vector/environments/env_1/rollback",
       view |-> "details", text |-> "", paged |-> FALSE],
      [name |-> "env reset-db-password", op |-> "post_empty",
       path |-> "/api/v1/vector/environments/env_1/db/reset-password",
       view |-> "message", text |-> "Database password reset successfully.", paged |-> FALSE],
      [name |-> "site update", op |-> "put", path |-> "/api/v1/vector/sites/site_1",
       view |-> "message", text |-> "Site updated successfully.", paged |-> FALSE],
      [name |-> "site suspend", op |-> "put_empty",
       path |-> "/api/v1/vector/sites/site_1/suspend",
       view |-> "message", text |-> "Site suspension initiated.", paged |-> FALSE],
      [name |-> "webhook delete", op |-> "delete", path |-> "/api/v1/vector/webhooks/wh_1",
       view |-> "message", text |-> "Webhook deleted successfully.", paged |-> FALSE] }
SiteDelete ==
    [name |-> "site delete", op |-> "delete", path |-> "/api/v1/vector/sites/site_1",
     view |-> "message", text |-> "Site deleted successfully.", paged |-> FALSE]
DbImport ==
    [name |-> "db import", op |-> "post_file", path |-> "/api/v1/vector/sites/site_1/db/import",
     view |-> "import", text |-> "", paged |-> FALSE]

\* a render that looks at the shape of `data` before it looks at the format
render_shape_first(c, fmt, response) ==
    IF c.view = "list" /\ Index(response, "data").t # "arr"
    THEN [res |-> Err(ApiError("Other", "Invalid response format")), out |-> <<>>]
    ELSE [res |-> Ok(Unit), out |-> <<print_json(response)>>]

\* What a command does with the decoded response: its Result and the lines it
\* prints to standard output.
render(c, format, response) ==
    IF format = "Json" THEN [res |-> Ok(Unit), out |-> <<print_json(response)>>]
    ELSE LET data == Index(response, "data")
         IN CASE c.view = "list" ->
                   IF data.t # "arr"
                   THEN [res |-> Err(ApiError("Other", "Invalid response format")), out |-> <<>>]
                   ELSE IF data.a = <<>>
                   THEN [res |-> Ok(Unit), out |-> <<print_message(c.text)>>]
                   ELSE LET p == extract_pagination(response)
                        IN [res |-> Ok(Unit),
                            out |-> <<print_table>> \o
                                    (IF c.paged /\ p.some
                                     THEN print_pagination(p.v[1], p.v[2], p.v[3])
                                     ELSE <<>>)]
              [] c.view = "details" -> [res |-> Ok(Unit), out |-> <<print_data>>]
              [] c.view = "message" -> [res |-> Ok(Unit), out |-> <<print_message(c.text)>>]
              [] c.view = "import" ->
                   IF Index(data, "success").t = "bool" /\ Index(data, "success").b
                   THEN [res |-> Ok(Unit),
                         out |-> <<print_message("Database imported successfully.")>>]
                   ELSE [res |-> Err(ApiError("Other",
                                     IF Index(data, "error").t = "str"
                                     THEN Index(data, "error").s ELSE "Import failed")),
                         out |-> <<>>]

\* str::trim and str::eq_ignore_ascii_case
IsSpace(c) == c \in {" ", "\n", "\r", "\t"}
RECURSIVE trim_start(_)
trim_start(s) == IF Len(s) > 0 /\ IsSpace(SubSeq(s, 1, 1)) THEN trim_start(SubSeq(s, 2, Len(s))) ELSE s
RECURSIVE trim_end(_)
trim_end(s) ==
    IF Len(s) > 0 /\ IsSpace(SubSeq(s, Len(s), Len(s)))
    THEN trim_end(SubSeq(s, 1, Len(s) - 1)) ELSE s
trim(s) == trim_end(trim_start(s))
AsciiUpper == "ABCDEFGHIJKLMNOPQRSTUVWXYZ"
AsciiLower == "abcdefghijklmnopqrstuvwxyz"
to_ascii_lowercase(c) ==
    IF \E i \in 1..26 : SubSeq(AsciiUpper, i, i) = c
    THEN LET i == CHOOSE i \in 1..26 : SubSeq(AsciiUpper, i, i) = c IN SubSeq(AsciiLower, i, i)
    ELSE c
eq_ignore_ascii_case(a, b) ==
    Len(a) = Len(b) /\
    \A i \in 1..Len(a) : to_ascii_lowercase(SubSeq(a, i, i)) = to_ascii_lowercase(SubSeq(b, i, i))

\* what read_line leaves in the buffer, and whether it failed: a line, the end of
\* input, or an I/O error (after which the buffer holds what was read before it)
StdinReads ==
    { [ok |-> TRUE, buf |-> "y\n"], [ok |-> TRUE, buf |-> "Y\n"], [ok |-> TRUE, buf |-> " y \n"],
      [ok |-> TRUE, buf |-> "n\n"], [ok |-> TRUE, buf |-> "yes\n"], [ok |-> TRUE, buf |-> "\n"],
      [ok |-> TRUE, buf |-> ""], [ok |-> FALSE, buf |-> ""], [ok |-> FALSE, buf |-> "y"] }

\* std::fs::metadata of the file to import: its length in bytes, or a failure
DirectImportLimit == 52428800
FileMetas ==
    { [ok |-> FALSE, len |-> 0], [ok |-> TRUE, len |-> 0], [ok |-> TRUE, len |-> DirectImportLimit],
      [ok |-> TRUE, len |-> DirectImportLimit + 1] }

(***************************************************************************)
(* src/src/commands/auth.rs, src/src/commands/mcp.rs: the commands that    *)
(* work on local files.                                                    *)
(***************************************************************************)
Login ==
    [name |-> "auth login", op |-> "get", path |-> "/api/v1/vector/user",
     view |-> "login", text |-> "Successfully authenticated.", paged |-> FALSE]
AuthStatus ==
    [name |-> "auth status", op |-> "get", path |-> "/api/v1/vector/user",
     view |-> "status", text |-> "", paged |-> FALSE]
Logout ==
    [name |-> "auth logout", op |-> "", path |-> "",
     view |-> "logout", text |-> "Logged out successfully.", paged |-> FALSE]
McpSetup ==
    [name |-> "mcp setup", op |-> "", path |-> "",
     view |-> "mcp", text |-> "", paged |-> FALSE]
EnvDbImport ==
    [name |-> "env db import", op |-> "post_file",
     path |-> "/api/v1/vector/environments/env_1/db/import",
     view |-> "import", text |-> "", paged |-> FALSE]

\* rpassword::read_password returns the line without its line ending
strip_newline(s) ==
    IF Len(s) >= 2 /\ SubSeq(s, Len(s) - 1, Len(s)) = "\r\n" THEN SubSeq(s, 1, Len(s) - 2)
    ELSE IF Len(s) >= 1 /\ SubSeq(s, Len(s), Len(s)) = "\n" THEN SubSeq(s, 1, Len(s) - 1)
    ELSE s

\* read_token: from the terminal without echo, else one line of standard input
read_token(is_terminal, stdin) ==
    IF is_terminal
    THEN IF stdin.ok THEN Ok(strip_newline(stdin.buf))
         ELSE Err(ApiError("ConfigError", "Failed to read token: I/O error"))
    ELSE IF stdin.ok THEN Ok(trim(stdin.buf))
         ELSE Err(ApiError("ConfigError", "Failed to read from stdin: I/O error"))

\* what `auth login` is given: --token, or a line to read
LoginTokens == {Some("vk_file_token"), Some(""), Some("vk_bad\ntoken")}
LoginReads ==
    { [ok |-> TRUE, buf |-> "vk_file_token\n"], [ok |-> TRUE, buf |-> " vk_file_token \n"],
      [ok |-> TRUE, buf |-> ""], [ok |-> FALSE, buf |-> ""] }

\* Credentials::save / Credentials::clear: the content of the file they leave
saved(api_key) == [st |-> "ok", api_key |-> api_key]
save_error == ApiError("ConfigError", "Failed to write credentials: Permission denied")

\* The config directory and credentials.json with their permission modes.  A
\* directory is [there, mode]; a file is [st, api_key, mode], st as in
\* CredentialsFiles.
DIR_MODE == 448
FILE_MODE == 384
NoDir == [there |-> FALSE, mode |-> 0]
Content(file) == [st |-> file.st, api_key |-> file.api_key]
\* the modes a directory and a file get from the umask when they are created:
\* 0755 and 0644, 0777 and 0666, 0700 and 0600
Umasks == { [dir |-> 493, file |-> 420], [dir |-> 511, file |-> 438],
            [dir |-> 448, file |-> 384] }
\* what can go wrong in Credentials::save: nothing, create_dir_all, the
\* set_permissions of the directory, fs::write before it has changed the file,
\* fs::write after it has truncated the file, the set_permissions of the file
SaveFaults == {"none", "create_dir", "dir_mode", "write", "write_cut", "file_mode"}

\* ensure_config_dir: its Result and the directory it leaves
ensure_config_dir(dir, fault, umask) ==
    IF dir.there THEN [res |-> Ok(Unit), dir |-> dir]
    ELSE IF fault = "create_dir"
    THEN [res |-> Err(ApiError("ConfigError",
                               "Failed to create config directory: Permission denied")),
          dir |-> dir]
    ELSE IF fault = "dir_mode"
    THEN [res |-> Err(ApiError("ConfigError",
                               "Failed to set directory permissions: Operation not permitted")),
          dir |-> [there |-> TRUE, mode |-> umask.dir]]
    ELSE [res |-> Ok(Unit), dir |-> [there |-> TRUE, mode |-> DIR_MODE]]

\* a set_permissions that leaves the mode of the file as it is
set_permissions_skipped(file, fault) == [res |-> Ok(Unit), file |-> file]
\* set_permissions(path): its Result and the file it leaves
set_permissions(file, fault) ==
    IF fault = "file_mode"
    THEN [res |-> Err(ApiError("ConfigError",
                               "Failed to set file permissions: Operation not permitted")),
          file |-> file]
    ELSE [res |-> Ok(Unit), file |-> [file EXCEPT !.mode = FILE_MODE]]

\* Credentials::save of the given api_key: its Result, the directory and the
\* file it leaves, and whether it has written to the file.  fs::write keeps the
\* mode of a file that is there and creates a new one with the umask's mode.
Credentials_save(api_key, fs, fault, umask) ==
    LET d == ensure_config_dir(fs.dir, fault, umask)
        mode == IF fs.file.st = "missing" THEN umask.file ELSE fs.file.mode
        p == set_permissions([st |-> "ok", api_key |-> api_key, mode |-> mode], fault)
    IN IF ~d.res.ok THEN [res |-> d.res, fs |-> [fs EXCEPT !.dir = d.dir], wrote |-> FALSE]
       ELSE IF fault = "write"
       THEN [res |-> Err(save_error), fs |-> [fs EXCEPT !.dir = d.dir], wrote |-> FALSE]
       ELSE IF fault = "write_cut"
       THEN [res |-> Err(ApiError("ConfigError",
                                  "Failed to write credentials: No space left on device")),
             fs |-> [dir |-> d.dir,
                     file |-> [st |-> "invalid", api_key |-> None, mode |-> mode]],
             wrote |-> TRUE]
       ELSE [res |-> p.res, fs |-> [dir |-> d.dir, file |-> p.file], wrote |-> TRUE]

\* the directory and the file as a run finds them, when only the content of the
\* file is known: no file, no directory to hold it
FsOf(credsFile) ==
    [dir |-> IF credsFile.st = "missing" THEN NoDir ELSE [there |-> TRUE, mode |-> DIR_MODE],
     file |-> [st |-> credsFile.st, api_key |-> credsFile.api_key, mode |-> FILE_MODE]]

\* the top-level values a claude_desktop_config.json may hold: objects with and
\* without mcpServers, with and without a `vector` entry in it, with other
\* servers and other top-level fields before and after it, and values that are
\* no ClaudeConfig
OtherServer == JObj(<< <<"command", JStr("node")>>, <<"args", JArr(<<JStr("server.js")>>)>> >>)
OldVector == JObj(<< <<"command", JStr("npx")>>, <<"args", JArr(<<JStr("old")>>)>> >>)
ClaudeConfigs ==
    { JObj(<<>>),
      JObj(<< <<"theme", JStr("dark")>> >>),
      JObj(<< <<"mcpServers", JObj(<<>>)>> >>),
      JObj(<< <<"mcpServers", JObj(<< <<"other-server", OtherServer>> >>)>>,
              <<"theme", JStr("dark")>> >>),
      JObj(<< <<"theme", JStr("dark")>>,
              <<"mcpServers", JObj(<< <<"vector", OldVector>> >>)>>,
              <<"someOtherSetting", JNum(1)>> >>),
      JObj(<< <<"customField", JObj(<< <<"zoom", JFloat("1.5")>> >>)>>,
              <<"mcpServers", JObj(<< <<"vector", OldVector>>,
                                      <<"other-server", OtherServer>> >>)>> >>),
      JObj(<< <<"mcp_servers", JObj(<< <<"vector", OldVector>> >>)>>,
              <<"mcpServers", JObj(<< <<"existing", OtherServer>>, <<"vector", JNull>> >>)>> >>),
      JObj(<< <<"theme", JStr("dark")>>, <<"mcpServers", JNull>> >>),
      JObj(<< <<"mcpServers", JArr(<<>>)>> >>),
      JArr(<<>>) }
\* claude_desktop_config.json: whether it is there and can be read, and the
\* JSON value of its text
ClaudeFiles ==
    { [st |-> "missing", val |-> JNull], [st |-> "unreadable", val |-> JNull],
      [st |-> "invalid", val |-> JNull] }
    \cup {[st |-> "ok", val |-> v] : v \in ClaudeConfigs}
NoClaude == [st |-> "unknown", val |-> JNull]
ClaudePath == "Claude/claude_desktop_config.json"

get_claude_config_path(claudeDirKnown) ==
    IF claudeDirKnown THEN Ok(ClaudePath)
    ELSE Err(ApiError("ConfigError", "Could not determine config directory"))

\* a ClaudeConfig read without its mcpServers
de_ClaudeConfig_no_servers(v) ==
    IF v.t # "obj"
    THEN Err(ApiError("ConfigError", "Failed to parse Claude config: invalid type: expected struct ClaudeConfig"))
    ELSE Ok([mcp_servers |-> <<>>, other |-> SelectSeq(v.m, LAMBDA p : p[1] # "mcpServers")])
\* Deserialize for ClaudeConfig: the member mcpServers, a map (empty when the
\* member is absent), and every other member, flattened into `other`
de_ClaudeConfig(v) ==
    IF v.t # "obj"
    THEN Err(ApiError("ConfigError", "Failed to parse Claude config: invalid type: expected struct ClaudeConfig"))
    ELSE IF HasKey(v, "mcpServers") /\ Get(v, "mcpServers").t # "obj"
    THEN Err(ApiError("ConfigError", "Failed to parse Claude config: invalid type: expected a map"))
    ELSE Ok([mcp_servers |-> IF HasKey(v, "mcpServers") THEN Get(v, "mcpServers").m ELSE <<>>,
             other |-> SelectSeq(v.m, LAMBDA p : p[1] # "mcpServers")])
\* Serialize for ClaudeConfig: mcpServers, then the members of `other`
ser_ClaudeConfig(config) ==
    JObj(<< <<"mcpServers", JObj(config.mcp_servers)>> >> \o config.other)

\* a Map::insert that leaves nothing but the new entry
insert_alone(m, k, v) == << <<k, v>> >>
\* Map::insert: the entry of the key is replaced, or a new entry is added (where
\* the entry stands among the others is the Map's own order)
insert(m, k, v) ==
    IF \E i \in 1..Len(m) : m[i][1] = k
    THEN [i \in 1..Len(m) |-> IF m[i][1] = k THEN <<k, v>> ELSE m[i]]
    ELSE Append(m, <<k, v>>)

\* the entry `mcp setup` writes for the token
vector_config(token) ==
    JObj(<< <<"args", JArr(<<JStr("-y"), JStr("mcp-remote"),
                             JStr("https://api.builtfast.com/mcp/vector"), JStr("--header"),
                             JStr("Authorization: Bearer " \o token)>>)>>,
            <<"command", JStr("npx")>> >>)

\* mcp::setup after the token has been found: its result, the lines it prints
\* and the file it leaves (a json! object keeps its members sorted by name)
mcp_setup(token, force, format, claude, claudeDirKnown, fsOk) ==
    LET path == get_claude_config_path(claudeDirKnown)
        fail(e) == [res |-> Err(e), out |-> <<>>, file |-> claude, wrote |-> FALSE]
        config == IF claude.st = "ok" THEN de_ClaudeConfig(claude.val)
                  ELSE Ok([mcp_servers |-> <<>>, other |-> <<>>])
        was_updated == \E i \in 1..Len(config.v.mcp_servers) : config.v.mcp_servers[i][1] = "vector"
        action == IF was_updated THEN "updated" ELSE "added"
    IN IF ~path.ok THEN fail(path.e)
       ELSE IF claude.st = "unreadable"
       THEN fail(ApiError("ConfigError", "Failed to read Claude config: Permission denied"))
       ELSE IF claude.st = "invalid"
       THEN fail(ApiError("ConfigError", "Failed to parse Claude config: expected value"))
       ELSE IF ~config.ok THEN fail(config.e)
       ELSE IF was_updated /\ ~force
       THEN fail(ApiError("ConfigError",
                 "Vector MCP server already configured. Use --force to overwrite."))
       ELSE IF ~fsOk
       THEN fail(ApiError("ConfigError", "Failed to write Claude config: Permission denied"))
       ELSE [res |-> Ok(Unit),
             out |-> IF format = "Json"
                     THEN <<print_json(JObj(<<
                              <<"action", JStr(action)>>, <<"config_path", JStr(path.v)>>,
                              <<"message", JStr("Vector MCP server " \o action
                                                \o " in Claude Desktop config")>>,
                              <<"success", JBool(TRUE)>> >>))>>
                     ELSE <<print_message("Vector MCP server " \o action
                                          \o " in Claude Desktop config."),
                            print_message("Config written to: " \o path.v),
                            print_message("\nRestart Claude Desktop to apply changes.")>>,
             file |-> [st |-> "ok",
                       val |-> ser_ClaudeConfig(
                                 [config.v EXCEPT !.mcp_servers =
                                     insert(config.v.mcp_servers, "vector",
                                            vector_config(token))])],
             wrote |-> TRUE]

\* What a command does with the response of its client operation: its Result,
\* the lines it prints and the credentials file it leaves.  fault is what goes
\* wrong in Credentials::save.
finish(c, format, client, response, credsFile, fault) ==
    IF c.view = "login"
    THEN LET creds == Credentials_load(credsFile, TRUE)
             email == Index(Index(response, "data"), "email")
             save == Credentials_save(client.token, FsOf(credsFile), fault,
                                      [dir |-> DIR_MODE, file |-> FILE_MODE])
         IN IF ~creds.ok THEN [res |-> creds, out |-> <<>>, creds |-> credsFile, wrote |-> FALSE]
            ELSE IF ~save.res.ok
            THEN [res |-> save.res, out |-> <<>>, creds |-> Content(save.fs.file),
                  wrote |-> save.wrote]
            ELSE [res |-> Ok(Unit),
                  out |-> IF format = "Json" THEN <<print_json(response)>>
                          ELSE <<print_message(c.text)>> \o
                               (IF email.t = "str"
                                THEN <<print_message("Logged in as: " \o email.s)>> ELSE <<>>),
                  creds |-> Content(save.fs.file), wrote |-> TRUE]
    ELSE IF c.view = "status"
    THEN [res |-> Ok(Unit),
          out |-> IF format = "Json"
                  THEN <<print_json(JObj(<<
                           <<"authenticated", JBool(TRUE)>>,
                           <<"user", JObj(<< <<"email", JStr(response.data.email)>>,
                                             <<"id", JNum(response.data.id)>>,
                                             <<"name", JStr(response.data.name)>> >>)>> >>))>>
                  ELSE <<print_data>>,
          creds |-> credsFile, wrote |-> FALSE]
    ELSE [res |-> render(c, format, response).res, out |-> render(c, format, response).out,
          creds |-> credsFile, wrote |-> FALSE]

(***************************************************************************)
(* What one invocation is given: its arguments and its environment.        *)
(***************************************************************************)
NoInput == [ok |-> TRUE, buf |-> ""]
NoMeta == [ok |-> TRUE, len |-> 0]
\* the arguments and the environment every command reads
EnvOf(c) ==
    [cmd : {c}, json_flag : BOOLEAN, no_json_flag : BOOLEAN, tty : BOOLEAN,
     configFile : ConfigFiles, envKey : EnvKeys, dirKnown : BOOLEAN, engineOk : BOOLEAN,
     force : {FALSE}, stdin : {NoInput}, stdinTty : {FALSE}, token : {None},
     meta : {NoMeta}, fileOk : {TRUE}, claude : {NoClaude}, claudeDirKnown : {TRUE},
     fsOk : {TRUE}, fault : {"none"}]
\* ... and what single commands read besides
SiteDeleteEnvs ==
    {[e EXCEPT !.force = TRUE] : e \in EnvOf(SiteDelete)}
    \cup {[e EXCEPT !.stdin = i] : e \in EnvOf(SiteDelete), i \in StdinReads}
ImportEnvs ==
    {[e EXCEPT !.meta = m, !.fileOk = o] :
        e \in EnvOf(DbImport) \cup EnvOf(EnvDbImport), m \in FileMetas, o \in BOOLEAN}
LoginEnvs ==
    {[e EXCEPT !.token = t] : e \in EnvOf(Login), t \in LoginTokens}
    \cup {[e EXCEPT !.stdinTty = y, !.stdin = i] :
            e \in EnvOf(Login), y \in BOOLEAN, i \in LoginReads}
\* (`auth logout` and `mcp setup` read no config.json and build no client;
\* `auth logout` reads no VECTOR_API_KEY, and saves only into a directory that
\* is there)
Local(e) == e.configFile.st = "missing" /\ e.engineOk
LogoutEnvs ==
    {[e EXCEPT !.fault = o] : e \in {x \in EnvOf(Logout) : Local(x) /\ x.envKey = None},
                             o \in SaveFaults \ {"create_dir", "dir_mode"}}
McpEnvs ==
    {[e EXCEPT !.force = f, !.claude = c, !.claudeDirKnown = k, !.fsOk = o] :
        e \in {x \in EnvOf(McpSetup) : Local(x)},
        f \in BOOLEAN, c \in ClaudeFiles, k \in BOOLEAN, o \in BOOLEAN}
Envs ==
    UNION {EnvOf(c) : c \in Commands \cup {AuthStatus}}
    \cup SiteDeleteEnvs \cup ImportEnvs \cup LoginEnvs \cup LogoutEnvs \cup McpEnvs
NoEnv ==
    [cmd |-> [name |-> "", op |-> "", path |-> "", view |-> "", text |-> "", paged |-> FALSE],
     json_flag |-> FALSE, no_json_flag |-> FALSE, tty |-> FALSE,
     configFile |-> [st |-> "missing", api_url |-> None], envKey |-> None,
     dirKnown |-> FALSE, engineOk |-> FALSE, force |-> FALSE, stdin |-> NoInput,
     stdinTty |-> FALSE, token |-> None, meta |-> NoMeta, fileOk |-> FALSE,
     claude |-> NoClaude, claudeDirKnown |-> FALSE, fsOk |-> FALSE,
     fault |-> "none"]

(***************************************************************************)
(* The state of one process run after another.                             *)
(***************************************************************************)
VARIABLES
    pc,         \* "start", "invoked" (arguments and environment given), "sending"
                \* (send() called), "reading" (status received, text() called),
                \* "exited"
    credsFile,  \* credentials.json, which outlives the run
    env,        \* the arguments and the environment of this run, until the
                \* network answers; NoEnv before and after
    cmd,        \* the command of this run
    format,     \* its OutputFormat
    client,     \* its ApiClient, NoClient before ApiClient::new
    req,        \* the request handed to send(), NoReq before
    attempts,   \* how many times send() was called in this run
    status,     \* the HTTP status received, 0 before
    body,       \* the body text received, NoBody before
    net,        \* what the network did last: "none", "send_failed", "status",
                \* "body_failed", "body"
    result,     \* what run() returned to main, Pending before
    raised,     \* the ApiErrors raised in this run, in order
    caught,     \* the errors a command discarded and went on
    exitCode,   \* the exit code of the process, -1 while it runs
    stdout,     \* what the run wrote to standard output
    stderr,     \* what the run wrote to standard error
    written,    \* the files the run wrote, in order
    setTokens,  \* the calls of set_token in this run: the token given and how
                \* many requests the client had sent before
    claudeFile, \* claude_desktop_config.json as `mcp setup` left it in this run
    eStatus,    \* from_response on its own: the status it is given,
    eBody,      \*   the body it is given,
    evals,      \*   and what each evaluation so far returned
    tIn,        \* the request core on its own: a command, a format, two tokens and
                \*   what the network does,
    tOut,       \*   and what it wrote and returned with each token so far
    fs,         \* the store on its own: the config directory and credentials.json
                \*   with their modes,
    saves       \*   and what each login and logout so far did to them

vars == <<pc, credsFile, env, cmd, format, client, req, attempts, status, body, net, result,
          raised, caught, exitCode, stdout, stderr, written, setTokens, claudeFile,
          eStatus, eBody, evals, tIn, tOut, fs, saves>>
runVars == <<pc, credsFile, env, cmd, format, client, req, attempts, status, body, net, result,
             raised, caught, exitCode, stdout, stderr, written, setTokens, claudeFile>>
evalVars == <<eStatus, eBody, evals, tIn, tOut, fs, saves>>

NoCommand == [name |-> "", op |-> "", path |-> "", view |-> "", text |-> "", paged |-> FALSE]
NoClient == [base_url |-> "", token |-> None]
NoReq == [method |-> "", url |-> "",
          headers |-> [accept |-> None, content_type |-> None, authorization |-> None]]
NoBody == TextBody("")
Pending == [ok |-> FALSE, e |-> ApiError("", "")]
NoFs == [dir |-> NoDir, file |-> [st |-> "missing", api_key |-> None, mode |-> 0]]
NoTwin == [cmd |-> NoCommand, format |-> "Json", tokens |-> <<"", "">>,
           net |-> [kind |-> "none"]]

Idle ==
    /\ pc = "start" /\ env = NoEnv /\ cmd = NoCommand /\ format = "Json" /\ client = NoClient
    /\ req = NoReq /\ attempts = 0 /\ status = 0 /\ body = NoBody /\ net = "none"
    /\ result = Pending /\ raised = <<>> /\ caught = <<>> /\ exitCode = -1
    /\ stdout = <<>> /\ stderr = <<>> /\ written = <<>> /\ setTokens = <<>>
    /\ claudeFile = NoClaude

Init ==
    /\ Idle
    /\ credsFile \in CredentialsFiles
    /\ eStatus = 0 /\ eBody = NoBody /\ evals = <<>>
    /\ tIn = NoTwin /\ tOut = <<>>
    /\ fs = NoFs /\ saves = <<>>

\* main, after run() has returned res: the error is printed and the process
\* exits with its code.  out and err are what the command itself wrote.
main(res, out, err) ==
    /\ pc' = "exited"
    /\ result' = res
    /\ stdout' = stdout \o out
    /\ stderr' = stderr \o err \o (IF res.ok THEN <<>> ELSE <<print_error(to_string(res.e))>>)
    /\ exitCode' = IF res.ok THEN EXIT_SUCCESS ELSE exit_code(res.e)

\* run() returns the error e
fails(e, err) == main(Err(e), <<>>, err) /\ raised' = Append(raised, e)

\* a client operation that hands its request to send() twice
call_twice(c, cl, fileOk, out, err) ==
    LET r == build_request(cl, c.op, c.path, fileOk)
    IN IF r.ok
       THEN /\ pc' = "sending" /\ req' = r.v /\ attempts' = attempts + 2
            /\ stdout' = stdout \o out /\ stderr' = stderr \o err
            /\ raised' = raised
            /\ UNCHANGED <<result, exitCode>>
       ELSE /\ main(r, out, err) /\ raised' = Append(raised, r.e)
            /\ UNCHANGED <<req, attempts>>

\* A command calls its client operation: the operation returns an error without
\* sending, or hands its request to send().
call(c, cl, fileOk, out, err) ==
    LET r == build_request(cl, c.op, c.path, fileOk)
    IN IF r.ok
       THEN /\ pc' = "sending" /\ req' = r.v /\ attempts' = attempts + 1
            /\ stdout' = stdout \o out /\ stderr' = stderr \o err
            /\ raised' = raised
            /\ UNCHANGED <<result, exitCode>>
       ELSE /\ main(r, out, err) /\ raised' = Append(raised, r.e)
            /\ UNCHANGED <<req, attempts>>

\* the program is started with its arguments, in its environment
Invoke ==
    /\ pc = "start"
    /\ pc' = "invoked"
    /\ env' \in Envs
    /\ UNCHANGED <<credsFile, cmd, format, client, req, attempts, status, body, net, result,
                   raised, caught, exitCode, stdout, stderr, written, setTokens, claudeFile,
                   evalVars>>

\* main: OutputFormat::detect, then run dispatches on the command
Dispatch(commands) ==
    /\ pc = "invoked"
    /\ env.cmd \in commands
    /\ cmd' = env.cmd
    /\ format' = detect(env.json_flag, env.no_json_flag, env.tty)

\* main for a resource command: run -> run_<resource> -> get_client, then the
\* command up to its request
RunCommand ==
    /\ Dispatch(Commands)
    /\ LET cl == get_client(env.configFile, credsFile, env.envKey, env.dirKnown, env.engineOk)
       IN IF ~cl.ok
          THEN fails(cl.e, <<>>) /\ UNCHANGED <<client, req, attempts>>
          ELSE client' = cl.v /\ call(env.cmd, cl.v, TRUE, <<>>, <<>>)
    /\ UNCHANGED <<credsFile, env, status, body, net, caught, written, setTokens, claudeFile,
                   evalVars>>

\* `site delete`: without --force the answer read from standard input decides
RunSiteDelete ==
    /\ Dispatch({SiteDelete})
    /\ LET cl == get_client(env.configFile, credsFile, env.envKey, env.dirKnown, env.engineOk)
           prompt == "Are you sure you want to delete site site_1? [y/N] "
       IN IF ~cl.ok
          THEN fails(cl.e, <<>>) /\ UNCHANGED <<client, req, attempts, caught>>
          ELSE /\ client' = cl.v
               /\ IF env.force
                  THEN call(SiteDelete, cl.v, TRUE, <<>>, <<>>) /\ UNCHANGED caught
                  ELSE /\ caught' = IF env.stdin.ok THEN caught
                                    ELSE Append(caught, "read_line: I/O error")
                       /\ IF ~eq_ignore_ascii_case(trim(env.stdin.buf), "y")
                          THEN /\ main(Ok(Unit), <<print_message("Aborted.")>>, <<prompt>>)
                               /\ UNCHANGED <<req, attempts, raised>>
                          ELSE call(SiteDelete, cl.v, TRUE, <<>>, <<prompt>>)
    /\ UNCHANGED <<credsFile, env, status, body, net, written, setTokens, claudeFile, evalVars>>

\* the check of the file's size in db::import_direct and env::db_import
too_large(c) ==
    ApiError("Other", "File too large for direct import. Use '"
                      \o (IF c = EnvDbImport THEN "env db import-session" ELSE "import-session")
                      \o "' for files over 50MB.")

\* a direct import that uploads the file whatever its size
RunDbImport_unchecked ==
    /\ Dispatch({DbImport, EnvDbImport})
    /\ LET cl == get_client(env.configFile, credsFile, env.envKey, env.dirKnown, env.engineOk)
       IN IF ~cl.ok
          THEN fails(cl.e, <<>>) /\ UNCHANGED <<client, req, attempts>>
          ELSE /\ client' = cl.v
               /\ IF ~env.meta.ok
                  THEN /\ fails(ApiError("Other", "Failed to read file: No such file or directory"),
                                <<>>)
                       /\ UNCHANGED <<req, attempts>>
                  ELSE call(env.cmd, cl.v, env.fileOk, <<>>, <<>>)
    /\ UNCHANGED <<credsFile, env, status, body, net, caught, written, setTokens, claudeFile,
                   evalVars>>

\* `db import` and `env db import`: the size of the file is checked before
\* post_file is called
RunDbImport ==
    /\ Dispatch({DbImport, EnvDbImport})
    /\ LET cl == get_client(env.configFile, credsFile, env.envKey, env.dirKnown, env.engineOk)
       IN IF ~cl.ok
          THEN fails(cl.e, <<>>) /\ UNCHANGED <<client, req, attempts>>
          ELSE /\ client' = cl.v
               /\ IF ~env.meta.ok
                  THEN /\ fails(ApiError("Other", "Failed to read file: No such file or directory"),
                                <<>>)
                       /\ UNCHANGED <<req, attempts>>
                  ELSE IF env.meta.len > DirectImportLimit
                  THEN fails(too_large(env.cmd), <<>>) /\ UNCHANGED <<req, attempts>>
                  ELSE call(env.cmd, cl.v, env.fileOk, <<>>, <<>>)
    /\ UNCHANGED <<credsFile, env, status, body, net, caught, written, setTokens, claudeFile,
                   evalVars>>

\* an `auth login` that stores the token before it has tried it
RunLogin_store_first ==
    /\ Dispatch({Login})
    /\ LET api_token == IF env.token.some THEN Ok(env.token.v)
                        ELSE read_token(env.stdinTty, env.stdin)
           prompt == IF ~env.token.some /\ env.stdinTty THEN <<"API Token: ">> ELSE <<>>
           config == Config_load(env.configFile, env.dirKnown)
           new == ApiClient_new(config.v.api_url, None, env.engineOk)
       IN IF ~api_token.ok
          THEN fails(api_token.e, prompt) /\ UNCHANGED <<credsFile, client, req, attempts, setTokens>>
          ELSE IF api_token.v = ""
          THEN /\ fails(ApiError("ConfigError", "Token cannot be empty"), prompt)
               /\ UNCHANGED <<credsFile, client, req, attempts, setTokens>>
          ELSE IF ~config.ok
          THEN fails(config.e, prompt) /\ UNCHANGED <<credsFile, client, req, attempts, setTokens>>
          ELSE IF ~new.ok
          THEN fails(new.e, prompt) /\ UNCHANGED <<credsFile, client, req, attempts, setTokens>>
          ELSE /\ credsFile' = saved(Some(api_token.v))
               /\ client' = set_token(new.v, api_token.v)
               /\ setTokens' = Append(setTokens, [token |-> api_token.v, sent |-> attempts])
               /\ call(Login, set_token(new.v, api_token.v), TRUE, <<>>, prompt)
    /\ UNCHANGED <<env, status, body, net, caught, written, claudeFile, evalVars>>

\* `auth login`: the token is taken from --token or read, a client is built
\* without a token, the token is set on it and the user is requested
RunLogin ==
    /\ Dispatch({Login})
    /\ LET api_token == IF env.token.some THEN Ok(env.token.v)
                        ELSE read_token(env.stdinTty, env.stdin)
           prompt == IF ~env.token.some /\ env.stdinTty THEN <<"API Token: ">> ELSE <<>>
           config == Config_load(env.configFile, env.dirKnown)
           new == ApiClient_new(config.v.api_url, None, env.engineOk)
       IN IF ~api_token.ok
          THEN fails(api_token.e, prompt) /\ UNCHANGED <<client, req, attempts, setTokens>>
          ELSE IF api_token.v = ""
          THEN /\ fails(ApiError("ConfigError", "Token cannot be empty"), prompt)
               /\ UNCHANGED <<client, req, attempts, setTokens>>
          ELSE IF ~config.ok
          THEN fails(config.e, prompt) /\ UNCHANGED <<client, req, attempts, setTokens>>
          ELSE IF ~new.ok
          THEN fails(new.e, prompt) /\ UNCHANGED <<client, req, attempts, setTokens>>
          ELSE /\ client' = set_token(new.v, api_token.v)
               /\ setTokens' = Append(setTokens, [token |-> api_token.v, sent |-> attempts])
               /\ call(Login, set_token(new.v, api_token.v), TRUE, <<>>, prompt)
    /\ UNCHANGED <<credsFile, env, status, body, net, caught, written, claudeFile, evalVars>>

\* an `auth status` that gets its client from get_client, as the resource
\* commands do
RunAuthStatus_get_client ==
    /\ Dispatch({AuthStatus})
    /\ LET cl == get_client(env.configFile, credsFile, env.envKey, env.dirKnown, env.engineOk)
       IN IF ~cl.ok
          THEN fails(cl.e, <<>>) /\ UNCHANGED <<client, req, attempts>>
          ELSE client' = cl.v /\ call(AuthStatus, cl.v, TRUE, <<>>, <<>>)
    /\ UNCHANGED <<credsFile, env, status, body, net, caught, written, setTokens, claudeFile,
                   evalVars>>

\* `auth status`: without a token it reports so and returns Ok
RunAuthStatus ==
    /\ Dispatch({AuthStatus})
    /\ LET config == Config_load(env.configFile, env.dirKnown)
           creds == Credentials_load(credsFile, env.dirKnown)
           token == get_api_key(env.envKey, creds.v)
           new == ApiClient_new(config.v.api_url, token, env.engineOk)
           not_logged_in ==
               IF format' = "Json"
               THEN print_json(JObj(<< <<"authenticated", JBool(FALSE)>>,
                                       <<"message", JStr("Not logged in")>> >>))
               ELSE print_message("Not logged in. Run 'vector auth login' to authenticate.")
       IN IF ~config.ok THEN fails(config.e, <<>>) /\ UNCHANGED <<client, req, attempts>>
          ELSE IF ~creds.ok THEN fails(creds.e, <<>>) /\ UNCHANGED <<client, req, attempts>>
          ELSE IF ~token.some
          THEN /\ main(Ok(Unit), <<not_logged_in>>, <<>>)
               /\ UNCHANGED <<client, req, attempts, raised>>
          ELSE IF ~new.ok THEN fails(new.e, <<>>) /\ UNCHANGED <<client, req, attempts>>
          ELSE client' = new.v /\ call(AuthStatus, new.v, TRUE, <<>>, <<>>)
    /\ UNCHANGED <<credsFile, env, status, body, net, caught, written, setTokens, claudeFile,
                   evalVars>>

\* an `auth logout` that saves the credentials with the api_key still in them
RunLogout_keeps_key ==
    /\ Dispatch({Logout})
    /\ LET creds == Credentials_load(credsFile, env.dirKnown)
           say(json, text) == IF format' = "Json"
                              THEN print_json(JObj(<< <<"message", JStr(json)>> >>))
                              ELSE print_message(text)
       IN IF ~creds.ok
          THEN fails(creds.e, <<>>) /\ UNCHANGED <<credsFile, written>>
          ELSE IF ~creds.v.api_key.some
          THEN /\ main(Ok(Unit), <<say("Not logged in", "Not logged in.")>>, <<>>)
               /\ UNCHANGED <<credsFile, written, raised>>
          ELSE \E save \in {Credentials_save(creds.v.api_key, FsOf(credsFile), env.fault,
                                              [dir |-> DIR_MODE, file |-> FILE_MODE])} :
                  /\ credsFile' = Content(save.fs.file)
                  /\ written' = IF save.wrote THEN Append(written, "credentials.json")
                                 ELSE written
                  /\ IF save.res.ok
                     THEN /\ main(Ok(Unit),
                                  <<say("Logged out successfully", Logout.text)>>, <<>>)
                          /\ UNCHANGED raised
                     ELSE fails(save.res.e, <<>>)
    /\ UNCHANGED <<env, client, req, attempts, status, body, net, caught, setTokens, claudeFile,
                   evalVars>>

\* `auth logout`: the stored api_key is cleared and the file saved
RunLogout ==
    /\ Dispatch({Logout})
    /\ LET creds == Credentials_load(credsFile, env.dirKnown)
           say(json, text) == IF format' = "Json"
                              THEN print_json(JObj(<< <<"message", JStr(json)>> >>))
                              ELSE print_message(text)
       IN IF ~creds.ok
          THEN fails(creds.e, <<>>) /\ UNCHANGED <<credsFile, written>>
          ELSE IF ~creds.v.api_key.some
          THEN /\ main(Ok(Unit), <<say("Not logged in", "Not logged in.")>>, <<>>)
               /\ UNCHANGED <<credsFile, written, raised>>
          ELSE \E save \in {Credentials_save(None, FsOf(credsFile), env.fault,
                                              [dir |-> DIR_MODE, file |-> FILE_MODE])} :
                  /\ credsFile' = Content(save.fs.file)
                  /\ written' = IF save.wrote THEN Append(written, "credentials.json")
                                 ELSE written
                  /\ IF save.res.ok
                     THEN /\ main(Ok(Unit),
                                  <<say("Logged out successfully", Logout.text)>>, <<>>)
                          /\ UNCHANGED raised
                     ELSE fails(save.res.e, <<>>)
    /\ UNCHANGED <<env, client, req, attempts, status, body, net, caught, setTokens, claudeFile,
                   evalVars>>

\* `mcp setup`: the token is looked up, then the Claude Desktop config is
\* loaded, changed and written
RunMcpSetup ==
    /\ Dispatch({McpSetup})
    /\ LET creds == Credentials_load(credsFile, env.dirKnown)
           token == get_api_key(env.envKey, creds.v)
           done == mcp_setup(token.v, env.force, format', env.claude, env.claudeDirKnown,
                             env.fsOk)
       IN IF ~creds.ok THEN fails(creds.e, <<>>) /\ UNCHANGED <<written, claudeFile>>
          ELSE IF ~token.some
          THEN /\ fails(ApiError("Unauthorized",
                                 "Not logged in. Run 'vector auth login' to authenticate."), <<>>)
               /\ UNCHANGED <<written, claudeFile>>
          ELSE /\ main(done.res, done.out, <<>>)
               /\ raised' = IF done.res.ok THEN raised ELSE Append(raised, done.res.e)
               /\ claudeFile' = done.file
               /\ written' = IF done.wrote THEN Append(written, ClaudePath) ELSE written
    /\ UNCHANGED <<credsFile, env, client, req, attempts, status, body, net, caught, setTokens,
                   evalVars>>

\* an operation that sends its request once more when send() has failed
SendFails_retry ==
    /\ pc = "sending"
    /\ \E why \in SendFailures :
          IF attempts < 2
          THEN /\ attempts' = attempts + 1
               /\ UNCHANGED <<pc, credsFile, env, cmd, format, client, req, status, body, net,
                              result, raised, caught, exitCode, stdout, stderr, written,
                              setTokens, claudeFile, evalVars>>
          ELSE /\ net' = "send_failed"
               /\ env' = NoEnv
               /\ fails(send_error(why), <<>>)
               /\ UNCHANGED <<credsFile, cmd, format, client, req, attempts, status, body,
                              caught, written, setTokens, claudeFile, evalVars>>

\* send() fails: the operation returns NetworkError
SendFails ==
    /\ pc = "sending"
    /\ \E why \in SendFailures :
          /\ net' = "send_failed"
          /\ env' = NoEnv
          /\ fails(send_error(why), <<>>)
          /\ UNCHANGED <<credsFile, cmd, format, client, req, attempts, status, body, caught,
                         written, setTokens, claudeFile, evalVars>>

\* send() returns a response: its status is known, its body is still to be read
ReceiveStatus ==
    /\ pc = "sending"
    /\ \E s \in Statuses :
          /\ pc' = "reading"
          /\ status' = s
          /\ net' = "status"
          /\ env' = NoEnv
          /\ UNCHANGED <<credsFile, cmd, format, client, req, attempts, body, result, raised,
                         caught, exitCode, stdout, stderr, written, setTokens, claudeFile,
                         evalVars>>

\* handle_response: response.text() fails
BodyFails ==
    /\ pc = "reading"
    /\ net' = "body_failed"
    /\ fails(body_error, <<>>)
    /\ UNCHANGED <<credsFile, env, cmd, format, client, req, attempts, status, body, caught,
                   written, setTokens, claudeFile, evalVars>>

\* handle_response with the body read, and the rest of the command; fault is
\* what goes wrong when `auth login` saves credentials.json
ReceiveBody ==
    /\ pc = "reading"
    /\ \E b \in Bodies : \E order \in IterOrders(b) :
       \E r \in {IF cmd = AuthStatus THEN handle_user_response(status, b, order)
                  ELSE handle_response(status, b, order)} :
          /\ body' = b
          /\ net' = "body"
          /\ IF ~r.ok
             THEN fails(r.e, <<>>) /\ UNCHANGED <<credsFile, written>>
             ELSE \E fault \in (IF cmd = Login THEN SaveFaults ELSE {"none"}) :
                  \E done \in {finish(cmd, format, client, r.v, credsFile, fault)} :
                     /\ main(done.res, done.out, <<>>)
                     /\ raised' = IF done.res.ok THEN raised ELSE Append(raised, done.res.e)
                     /\ credsFile' = done.creds
                     /\ written' = IF done.wrote THEN Append(written, "credentials.json")
                                    ELSE written
    /\ UNCHANGED <<env, cmd, format, client, req, attempts, status, caught, setTokens,
                   claudeFile, evalVars>>

\* the next run of the program
NextRun ==
    /\ pc = "exited"
    /\ pc' = "start" /\ env' = NoEnv /\ cmd' = NoCommand /\ format' = "Json"
    /\ client' = NoClient /\ req' = NoReq /\ attempts' = 0 /\ status' = 0 /\ body' = NoBody
    /\ net' = "none" /\ result' = Pending /\ raised' = <<>> /\ caught' = <<>>
    /\ exitCode' = -1 /\ stdout' = <<>> /\ stderr' = <<>> /\ written' = <<>>
    /\ setTokens' = <<>> /\ claudeFile' = NoClaude
    /\ UNCHANGED <<credsFile, evalVars>>

Next ==
    \/ Invoke
    \/ RunCommand
    \/ RunSiteDelete
    \/ RunDbImport
    \/ RunLogin
    \/ RunAuthStatus
    \/ RunLogout
    \/ RunMcpSetup
    \/ SendFails
    \/ ReceiveStatus
    \/ BodyFails
    \/ ReceiveBody
    \/ NextRun

Spec == Init /\ [][Next]_vars

(***************************************************************************)
(* ApiError::from_response on its own: a status of an error response and a *)
(* body are drawn, and from_response is evaluated on them again and again, *)
(* as it is in one run after another on the same response.                 *)
(***************************************************************************)
MaxEvals == 2
ErrorStatuses == {s \in Statuses : ~is_success(s)}

InitErr ==
    /\ Idle
    /\ credsFile = [st |-> "missing", api_key |-> None]
    /\ eStatus \in ErrorStatuses
    /\ eBody \in Bodies
    /\ evals = <<>>
    /\ tIn = NoTwin /\ tOut = <<>>
    /\ fs = NoFs /\ saves = <<>>

\* one evaluation of ApiError::from_response(eStatus, eBody)
Evaluate ==
    /\ Len(evals) < MaxEvals
    /\ \E order \in IterOrders(eBody) :
          evals' = Append(evals, from_response(eStatus, eBody, order))
    /\ UNCHANGED <<runVars, eStatus, eBody, tIn, tOut, fs, saves>>

NextErr == Evaluate
SpecErr == InitErr /\ [][NextErr]_vars

(***************************************************************************)
(* The request core on its own, run with one token and with another: the   *)
(* client operation, and main printing its error.                          *)
(***************************************************************************)
\* tokens that make a header value, and tokens that do not
TwinTokens == {"vk_file_token", "vk_env_token", "vk_env\ntoken", "vk_bad\ntoken"}
\* what the network does to the request: send() fails, the body cannot be
\* read, or a status and a body arrive
TwinStatuses == {200, 401, 422, 500}
Networks ==
    {[kind |-> "send_failed", why |-> w] : w \in SendFailures}
    \cup {[kind |-> "body_failed", status |-> s] : s \in TwinStatuses}
    \cup UNION {{[kind |-> "body", status |-> s, body |-> b, order |-> o] :
                    s \in TwinStatuses, o \in IterOrders(b)} : b \in Bodies}

\* a client operation from headers() to its result, under the network n
operation(cl, c, n) ==
    LET r == build_request(cl, c.op, c.path, TRUE)
    IN IF ~r.ok THEN r
       ELSE CASE n.kind = "send_failed" -> Err(send_error(n.why))
              [] n.kind = "body_failed" -> Err(body_error)
              [] n.kind = "body" -> handle_response(n.status, n.body, n.order)

\* the run of a command whose client holds the token: what it writes and the
\* exit code
core(c, fmt, token, n) ==
    LET res == operation([base_url |-> DEFAULT_BASE_URL, token |-> Some(token)], c, n)
        done == IF res.ok THEN render(c, fmt, res.v) ELSE [res |-> res, out |-> <<>>]
    IN [out |-> done.out,
        err |-> IF done.res.ok THEN <<>> ELSE <<print_error(to_string(done.res.e))>>,
        code |-> IF done.res.ok THEN EXIT_SUCCESS ELSE exit_code(done.res.e)]

InitTwin ==
    /\ Idle
    /\ credsFile = [st |-> "missing", api_key |-> None]
    /\ eStatus = 0 /\ eBody = NoBody /\ evals = <<>>
    /\ tIn \in [cmd : Commands \cup {DbImport}, format : {"Json", "Table"},
                 tokens : {p \in TwinTokens \X TwinTokens :
                             p[1] # p[2] /\ IsHeaderValue(p[1]) = IsHeaderValue(p[2])},
                 net : Networks]
    /\ tOut = <<>>
    /\ fs = NoFs /\ saves = <<>>

\* the run with the first token
RunFirst ==
    /\ tIn # NoTwin /\ tOut = <<>>
    /\ tOut' = <<core(tIn.cmd, tIn.format, tIn.tokens[1], tIn.net)>>
    /\ UNCHANGED <<runVars, eStatus, eBody, evals, tIn, fs, saves>>

\* the run with the second token, under the same network
RunSecond ==
    /\ tIn # NoTwin /\ Len(tOut) = 1
    /\ tOut' = Append(tOut, core(tIn.cmd, tIn.format, tIn.tokens[2], tIn.net))
    /\ UNCHANGED <<runVars, eStatus, eBody, evals, tIn, fs, saves>>

NextTwin == RunFirst \/ RunSecond
SpecTwin == InitTwin /\ [][NextTwin]_vars

(***************************************************************************)
(* The store on its own: `auth login` after its request and `auth logout`, *)
(* one after another, on a config directory and a credentials.json that    *)
(* have permission modes.                                                  *)
(***************************************************************************)
MaxSaves == 2
\* the directory and the file as the first command finds them (modes 0700,
\* 0755, 0777 and 0600, 0644): no file in no directory
StoreStates ==
    {[dir |-> NoDir, file |-> NoFs.file]}
    \cup {[dir |-> [there |-> TRUE, mode |-> d], file |-> f] :
            d \in {448, 493, 511},
            f \in {NoFs.file}
                   \cup [st : {"ok"}, api_key : {None, Some("vk_file_token")},
                         mode : {384, 420}]}

InitStore ==
    /\ Idle
    /\ credsFile = [st |-> "missing", api_key |-> None]
    /\ eStatus = 0 /\ eBody = NoBody /\ evals = <<>>
    /\ tIn = NoTwin /\ tOut = <<>>
    /\ fs \in StoreStates
    /\ saves = <<>>

\* auth::login once the token has been tried: Credentials::load, then save with
\* the token as api_key
StoreLogin ==
    /\ Len(saves) < MaxSaves
    /\ \E fault \in SaveFaults, umask \in Umasks :
       \E creds \in {Credentials_load(Content(fs.file), TRUE)} :
       \E save \in {Credentials_save(Some("vk_new_token"), fs, fault, umask)} :
          IF ~creds.ok
          THEN /\ saves' = Append(saves, [op |-> "login", before |-> fs, save |-> "none",
                                          res |-> creds, after |-> fs])
               /\ UNCHANGED fs
          ELSE /\ saves' = Append(saves, [op |-> "login", before |-> fs,
                                          save |-> IF save.res.ok THEN "ok" ELSE "failed",
                                          res |-> save.res, after |-> save.fs])
               /\ fs' = save.fs
    /\ UNCHANGED <<runVars, eStatus, eBody, evals, tIn, tOut>>

\* auth::logout: Credentials::load, then clear (save without api_key) when an
\* api_key is stored
StoreLogout ==
    /\ Len(saves) < MaxSaves
    /\ \E fault \in SaveFaults, umask \in Umasks :
       \E creds \in {Credentials_load(Content(fs.file), TRUE)} :
       \E save \in {Credentials_save(None, fs, fault, umask)} :
          IF ~creds.ok \/ ~creds.v.api_key.some
          THEN /\ saves' = Append(saves, [op |-> "logout", before |-> fs, save |-> "none",
                                          res |-> IF creds.ok THEN Ok(Unit) ELSE creds,
                                          after |-> fs])
               /\ UNCHANGED fs
          ELSE /\ saves' = Append(saves, [op |-> "logout", before |-> fs,
                                          save |-> IF save.res.ok THEN "ok" ELSE "failed",
                                          res |-> save.res, after |-> save.fs])
               /\ fs' = save.fs
    /\ UNCHANGED <<runVars, eStatus, eBody, evals, tIn, tOut>>

NextStore == StoreLogin \/ StoreLogout
SpecStore == InitStore /\ [][NextStore]_vars

(***************************************************************************)
(* What the specification says of the message of an error response, stated *)
(* on the JSON text itself.                                                *)
(***************************************************************************)
StartsWith(s, prefix) == Len(s) >= Len(prefix) /\ SubSeq(s, 1, Len(prefix)) = prefix

\* the body is a JSON object whose `errors` member maps field names to lists
\* of strings
HasErrorsMapping(b) ==
    b.json /\ b.val.t = "obj" /\ HasKey(b.val, "errors") /\ IsFieldListMap(Get(b.val, "errors"))
\* ... and the mapping holds at least one message
HasFieldMessage(b) ==
    HasErrorsMapping(b) /\ \E i \in 1..Len(Get(b.val, "errors").m) :
                               Len(Get(b.val, "errors").m[i][2].a) > 0
\* the body is a JSON object with a top-level string member `message`
HasStringMessage(b) ==
    b.json /\ b.val.t = "obj" /\ HasKey(b.val, "message") /\ Get(b.val, "message").t = "str"

RECURSIVE FieldMessages(_, _, _)
\* the "field: message" strings of an `errors` mapping, its fields taken in the
\* order p from the i-th on
FieldMessages(m, p, i) ==
    IF i > Len(p) THEN <<>>
    ELSE [j \in 1..Len(m[p[i]][2].a) |-> m[p[i]][1] \o ": " \o m[p[i]][2].a[j].s]
         \o FieldMessages(m, p, i + 1)
\* the joined texts the mapping allows, one for each order of its fields
JoinedFieldMessages(b) ==
    LET m == Get(b.val, "errors").m
    IN {Join(FieldMessages(m, p, 1), "; ") : p \in Perms(Len(m))}

\* C4: whenever the body of an error response is JSON with an `errors` member
\* that maps field names to lists of strings (holding at least one message),
\* the message of the error is the "field: message" strings of the mapping
\* joined by "; ", whatever `message` member the body has as well.
C4_ErrorsMappingJoined ==
    \A i \in 1..Len(evals) :
        HasFieldMessage(eBody) => evals[i].msg \in JoinedFieldMessages(eBody)

\* C5: whenever the body has no `errors` member that maps field names to lists
\* of strings and has a top-level string member `message`, the message of the
\* error is that string, whatever other members the body has.
C5_MessageVerbatim ==
    \A i \in 1..Len(evals) :
        (HasStringMessage(eBody) /\ ~HasErrorsMapping(eBody))
            => evals[i].msg = Get(eBody.val, "message").s

\* C6: for a body that is not JSON, or is JSON with neither an `errors` mapping
\* nor a string `message`, the message of the error is the text of the body,
\* unchanged.
C6_RawBodyOtherwise ==
    \A i \in 1..Len(evals) :
        (~eBody.json \/ (~HasErrorsMapping(eBody) /\ ~HasStringMessage(eBody)))
            => evals[i].msg = eBody.text

\* C7: two evaluations of from_response on the same status and the same body
\* yield the same kind and the same message.
C7_FromResponsePure ==
    \A i, j \in 1..Len(evals) : evals[i] = evals[j]

(***************************************************************************)
(* The claims about a run of the program.                                  *)
(***************************************************************************)
Exited == pc = "exited"
\* the run received a response and read its body
BodyRead == net = "body"

\* the kind the specification gives each status of an error response
ClaimedKind(s) ==
    IF s = 401 THEN "Unauthorized"
    ELSE IF s = 403 THEN "Forbidden"
    ELSE IF s = 404 THEN "NotFound"
    ELSE IF s = 422 THEN "ValidationError"
    ELSE IF s >= 500 /\ s <= 599 THEN "ServerError"
    ELSE "Other"

\* C1: for every status outside 200..299 and every body, the error of the
\* response has the kind its status alone selects (401 Unauthorized, 403
\* Forbidden, 404 NotFound, 422 ValidationError, 500..599 ServerError, Other
\* for the rest), and the client operation returns from_response(status, body)
\* as the only error of the run.
C1_StatusSelectsKind ==
    (Exited /\ BodyRead /\ ~is_success(status)) =>
        /\ ~result.ok
        /\ result.e.kind = ClaimedKind(status)
        /\ \E order \in IterOrders(body) : result.e = from_response(status, body, order)
        /\ raised = <<result.e>>

\* a 599 answered to a `deploy rollback` POST came back as ServerError
C1_Witness ==
    /\ Exited /\ BodyRead /\ status = 599 /\ cmd.op = "post"
    /\ ~result.ok /\ result.e.kind = "ServerError"

\* the exit code the specification gives each kind
ClaimedExitCode(kind) ==
    IF kind \in {"Unauthorized", "Forbidden"} THEN 2
    ELSE IF kind = "NotFound" THEN 4
    ELSE IF kind = "ValidationError" THEN 3
    ELSE IF kind \in {"ServerError", "NetworkError"} THEN 5
    ELSE IF kind \in {"ConfigError", "Other"} THEN 1
    ELSE -1

\* C2: the process exits with 2 for Unauthorized and Forbidden, 4 for NotFound,
\* 3 for ValidationError, 5 for ServerError and NetworkError, 1 for ConfigError
\* and Other, and 0 for a successful run; it exits with no other code, and has
\* no exit code before it exits.
C2_ExitCodeOfKind ==
    IF Exited
    THEN /\ exitCode = (IF result.ok THEN 0 ELSE ClaimedExitCode(result.e.kind))
         /\ exitCode \in 0..5
         /\ ~result.ok => result.e.kind \in Kinds
    ELSE exitCode = -1

\* a run that ended in a ServerError exited with 5
C2_Witness ==
    Exited /\ ~result.ok /\ result.e.kind = "ServerError" /\ exitCode = 5

\* the lines of standard error that main's print_error wrote
ErrorLines == SelectSeq(stderr, LAMBDA line : StartsWith(line, "Error: "))

\* C3: every error raised in a command reaches main unchanged and is consumed
\* there once: it is printed once to standard error after "Error: " and the
\* process exits with the code of its kind; the process exits 0 exactly when
\* the command returned Ok; and no command discards an error and goes on.
C3_ErrorsPropagate ==
    Exited =>
        /\ caught = <<>>
        /\ result.ok <=> raised = <<>>
        /\ exitCode = 0 <=> result.ok
        /\ IF result.ok THEN ErrorLines = <<>>
           ELSE /\ raised = <<result.e>>
                /\ ErrorLines = <<"Error: " \o to_string(result.e)>>
                /\ exitCode = exit_code(result.e)

\* C8: a response with a status in 200..299 whose body is no JSON text makes
\* the client operation fail with Other and a message that starts with
\* "JSON parse error: ", and the process exit with 1.
C8_DecodeFailureIsOther ==
    (Exited /\ BodyRead /\ is_success(status) /\ ~body.json) =>
        /\ ~result.ok
        /\ result.e.kind = "Other"
        /\ StartsWith(result.e.msg, "JSON parse error: ")
        /\ Len(result.e.msg) > Len("JSON parse error: ")
        /\ raised = <<result.e>>
        /\ exitCode = 1

\* a 204 with an empty body ended the run with the parse error
C8_Witness ==
    /\ Exited /\ BodyRead /\ status = 204 /\ body.text = ""
    /\ ~result.ok /\ result.e.kind = "Other" /\ exitCode = 1

\* C9: when send() fails the operation fails with NetworkError and the process
\* exits with 5, and the request is not sent again: a run calls send() at most
\* once, also for a POST or a PUT.
C9_SendFailureNoRetry ==
    /\ attempts <= 1
    /\ (Exited /\ net = "send_failed") =>
          /\ ~result.ok /\ result.e.kind = "NetworkError"
          /\ raised = <<result.e>>
          /\ exitCode = 5
          /\ attempts = 1

\* the PUT of `site update` could not be sent
C9_Witness ==
    /\ Exited /\ net = "send_failed" /\ req.method = "PUT" /\ attempts = 1
    /\ result.e.kind = "NetworkError" /\ exitCode = 5

\* a status has been received for the request of this run
StatusReceived == net \in {"status", "body_failed", "body"}

\* C10 as stated: once a status has been received for a request, the run never
\* ends in NetworkError.
C10_NoNetworkErrorAfterStatus ==
    (Exited /\ StatusReceived) => (result.ok \/ result.e.kind # "NetworkError")

\* C10: a run ends in NetworkError only when the HTTP client could not be
\* built, when send() failed before any status was received, or when the body
\* of the response could not be read after its status was received, and in
\* each of these cases it does; once the body has been read, the client
\* operation returns success, Other for a 2xx body that is no JSON, or the
\* kind its status selects, never NetworkError (after a success the command
\* may still fail on its own: with Other, or `auth login` with ConfigError when
\* the credentials cannot be loaded or saved).
C10_NetworkErrorOnlyFromTransport ==
    Exited =>
        /\ (~result.ok /\ result.e.kind = "NetworkError")
              <=> \/ /\ net = "none" /\ attempts = 0 /\ client = NoClient /\ ~result.ok
                     /\ raised = <<result.e>> /\ result.e.msg = "builder error"
                  \/ net = "send_failed"
                  \/ net = "body_failed"
        /\ net \in {"send_failed", "body_failed"} => raised = <<result.e>>
        /\ net = "send_failed" => status = 0
        /\ net = "body_failed" => status # 0
        /\ BodyRead =>
              IF ~is_success(status)
              THEN ~result.ok /\ result.e.kind = ClaimedKind(status)
              ELSE IF ~body.json THEN ~result.ok /\ result.e.kind = "Other"
              ELSE \/ raised = <<>>
                   \/ raised[1].kind = "Other"
                   \/ cmd = Login /\ raised[1].kind = "ConfigError"

\* a 200 whose body could not be read ended the run in NetworkError
C10_Witness ==
    /\ Exited /\ net = "body_failed" /\ status = 200
    /\ ~result.ok /\ result.e.kind = "NetworkError" /\ exitCode = 5

(***************************************************************************)
(* Client construction, request headers and the token.                     *)
(***************************************************************************)
\* the token `auth login` works with, when it gets one
LoginToken ==
    IF env.token.some THEN env.token.v
    ELSE IF ~env.stdin.ok THEN ""
    ELSE IF env.stdinTty THEN strip_newline(env.stdin.buf) ELSE trim(env.stdin.buf)

\* the files of this run load: config.json, credentials.json
ConfigLoads == env.dirKnown /\ env.configFile.st \in {"missing", "ok"}
CredentialsLoad == env.dirKnown /\ credsFile.st \in {"missing", "ok"}

\* the token the environment and the credentials file provide, None if neither
ProvidedToken ==
    IF env.envKey.some THEN env.envKey
    ELSE IF credsFile.st = "ok" THEN credsFile.api_key ELSE None

\* the commands that build their client with get_client
ClientCommands == Commands \cup {SiteDelete, DbImport, EnvDbImport}

\* the run got as far as ApiClient::new; its arguments and environment are
\* still known
ClientConstructed ==
    /\ pc \in {"sending", "exited"} /\ env # NoEnv
    /\ \/ cmd \in ClientCommands \cup {AuthStatus}
             /\ ConfigLoads /\ CredentialsLoad /\ ProvidedToken.some
       \/ cmd = Login /\ LoginToken # "" /\ ConfigLoads

\* the base URL the specification gives the client
ClaimedBaseUrl ==
    IF env.configFile.api_url.some THEN env.configFile.api_url.v
    ELSE "https://api.builtfast.com"

\* C11: constructing the client fails only when the HTTP engine cannot
\* initialize, and then the run fails with ConfigError and exit code 1;
\* otherwise the client has the override as base_url, or the default URL when
\* there is none, and holds the token it was given.
C11_ConstructionFailsWithConfigError ==
    ClientConstructed =>
        IF env.engineOk
        THEN /\ client.base_url = ClaimedBaseUrl
             /\ client.token = IF cmd = Login THEN Some(LoginToken) ELSE ProvidedToken
        ELSE /\ client = NoClient /\ attempts = 0
             /\ Exited /\ ~result.ok /\ result.e.kind = "ConfigError" /\ exitCode = 1

\* a request has been handed to send() in this run
RequestSent == req # NoReq

\* C12: every request sent carries Accept: application/json; it carries
\* Content-Type: application/json unless it is the multipart file upload, which
\* does not; it carries Authorization: Bearer <token> with the token stored in
\* the client, and a client without a token builds requests without an
\* Authorization header.
C12_RequestHeaders ==
    /\ RequestSent =>
          /\ attempts = 1
          /\ req.headers.accept = Some("application/json")
          /\ IF cmd.op = "post_file"
             THEN req.headers.content_type # Some("application/json")
             ELSE req.headers.content_type = Some("application/json")
          /\ client.token.some
          /\ req.headers.authorization = Some("Bearer " \o client.token.v)
    /\ \A op \in ClientOps :
          LET r == build_request([client EXCEPT !.token = None], op, "/api/v1/vector/sites", TRUE)
          IN r.ok /\ r.v.headers.authorization = None
                  /\ r.v.headers.accept = Some("application/json")

\* the upload of `db import` was sent with the token of VECTOR_API_KEY
C12_Witness ==
    /\ pc = "sending" /\ cmd.op = "post_file" /\ client.token = Some("vk_env_token")
    /\ req.headers.authorization = Some("Bearer vk_env_token")
    /\ req.headers.content_type = Some(MultipartType)
    /\ req.headers.accept = Some("application/json")

\* C13 as stated: set_token is called at most once in a run and only by
\* `auth login`, after a login call has succeeded; in every other command the
\* client keeps the token it was constructed with.
C13_SetTokenAfterLoginCall ==
    /\ Len(setTokens) <= 1
    /\ setTokens # <<>> => cmd = Login /\ setTokens[1].sent >= 1
    /\ (cmd # Login /\ client # NoClient /\ env # NoEnv) => client.token = ProvidedToken

\* C13: set_token is called at most once in a run and only by `auth login`,
\* right after the client has been constructed without a token and before the
\* request that tries the token, the only request of the run, is sent; from
\* then on, and in every other command from construction on, the client's
\* token does not change until the process exits.
C13_SetTokenBeforeOnlyRequest ==
    /\ [](/\ Len(setTokens) <= 1
          /\ setTokens # <<>> =>
                /\ cmd = Login
                /\ setTokens[1].sent = 0
                /\ client.token = Some(setTokens[1].token)
          /\ (cmd = Login /\ RequestSent) => setTokens # <<>> /\ attempts = 1
          /\ (cmd # Login /\ client # NoClient /\ env # NoEnv) => client.token = ProvidedToken)
    /\ [][(client # NoClient /\ pc # "exited") => client' = client /\ setTokens' = setTokens]_vars

\* `auth login` has set the token and has sent its request with it
C13_Witness ==
    /\ cmd = Login /\ pc = "sending" /\ attempts = 1
    /\ setTokens = <<[token |-> "vk_file_token", sent |-> 0]>>
    /\ client.token = Some("vk_file_token")
    /\ req.headers.authorization = Some("Bearer vk_file_token")

\* C14: the request core does not log or echo the token: run with two
\* different tokens under the same network (both tokens fit a header value, or
\* both do not), it writes the same lines to standard output and to standard
\* error and exits with the same code, whether it fails with NetworkError,
\* with ConfigError for the header value, with Other or with the kind of a
\* status, or succeeds.
C14_TokenNotEchoed ==
    Len(tOut) = 2 =>
        /\ tOut[1].out = tOut[2].out
        /\ tOut[1].err = tOut[2].err
        /\ tOut[1].code = tOut[2].code

\* two tokens with a line break in them were both refused with the same line
C14_Witness ==
    /\ Len(tOut) = 2 /\ tIn.tokens = <<"vk_env\ntoken", "vk_bad\ntoken">>
    /\ tOut[1].err = <<"Error: Configuration error: failed to parse header value">>
    /\ tOut[2].err = tOut[1].err /\ tOut[1].code = 1

(***************************************************************************)
(* The output format and the pagination footer.                            *)
(***************************************************************************)
\* the format the specification gives the flags and the terminal
ClaimedFormat(json, no_json, terminal) ==
    CASE json -> "Json"
      [] ~json /\ no_json -> "Table"
      [] ~json /\ ~no_json /\ terminal -> "Table"
      [] ~json /\ ~no_json /\ ~terminal -> "Json"

\* the run is past main's call of detect
Dispatched == pc \in {"sending", "reading", "exited"}

\* C15: detect gives Json whenever --json is set, also together with
\* --no-json; else Table when --no-json is set; else Table on a terminal and
\* Json otherwise.  The format is resolved once, before the command starts,
\* and does not change until the process exits; what a command prints after
\* its response is the JSON of the response in Json and never that in Table.
C15_FormatResolvedOnce ==
    /\ [](/\ \A j \in BOOLEAN, n \in BOOLEAN, t \in BOOLEAN :
                detect(j, n, t) = ClaimedFormat(j, n, t)
          /\ (Dispatched /\ env # NoEnv) =>
                format = ClaimedFormat(env.json_flag, env.no_json_flag, env.tty)
          /\ (Exited /\ BodyRead /\ result.ok /\ cmd \in ClientCommands \cup {Login}) =>
                IF format = "Json" THEN stdout = <<Render(body.val)>>
                ELSE stdout # <<>> /\ \A i \in 1..Len(stdout) : stdout[i] # Render(body.val))
    /\ [][(Dispatched /\ pc # "exited") => format' = format]_vars

\* --json and --no-json together on a terminal: the command runs in Json
C15_Witness ==
    /\ pc = "sending" /\ cmd.view = "list"
    /\ env.json_flag /\ env.no_json_flag /\ env.tty
    /\ format = "Json"

\* an unsigned integer of JSON
IsUnsigned(v) == v.t = "num" /\ v.n \in Nat

\* the response has a `meta` object with the three fields as unsigned integers
HasPagination(v) ==
    /\ v.t = "obj" /\ \E i \in 1..Len(v.m) : v.m[i][1] = "meta"
    /\ LET meta == Index(v, "meta")
       IN /\ meta.t = "obj"
          /\ \A k \in {"current_page", "last_page", "total"} :
                /\ \E i \in 1..Len(meta.m) : meta.m[i][1] = k
                /\ IsUnsigned(Index(meta, k))

\* a line of standard output is a pagination footer
IsFooter(line) == StartsWith(line, "\nPage ")

\* C16: extract_pagination gives (current_page, last_page, total) exactly when
\* the response has a `meta` object holding all three as unsigned integers;
\* with `meta` missing or no object, or a field missing or no unsigned integer,
\* it gives nothing, and a list command then prints no pagination footer.
C16_PaginationAllOrNothing ==
    /\ (BodyRead /\ body.json) =>
          extract_pagination(body.val) =
              IF HasPagination(body.val)
              THEN LET meta == Index(body.val, "meta")
                   IN Some(<<Index(meta, "current_page").n, Index(meta, "last_page").n,
                             Index(meta, "total").n>>)
              ELSE None
    /\ (Exited /\ BodyRead /\ cmd.view = "list" /\ body.json /\ ~HasPagination(body.val)) =>
          \A i \in 1..Len(stdout) : ~IsFooter(stdout[i])
    /\ (Exited /\ BodyRead /\ cmd.view = "list" /\ \E i \in 1..Len(stdout) : IsFooter(stdout[i])) =>
          /\ HasPagination(body.val) /\ format = "Table" /\ result.ok
          /\ LET meta == Index(body.val, "meta")
             IN /\ Index(meta, "last_page").n > 1
                /\ stdout = <<print_table,
                              "\nPage " \o NumText(Index(meta, "current_page").n)
                              \o " of " \o NumText(Index(meta, "last_page").n)
                              \o " (" \o NumText(Index(meta, "total").n) \o " total)">>

\* `site list` got a page whose total is a string: the table, and no footer
C16_Witness ==
    /\ Exited /\ BodyRead /\ cmd.name = "site list" /\ format = "Table" /\ result.ok
    /\ Index(Index(body.val, "meta"), "total") = JStr("50")
    /\ Index(Index(body.val, "meta"), "last_page") = JNum(5)
    /\ extract_pagination(body.val) = None
    /\ stdout = <<print_table>>

(***************************************************************************)
(* Commands without a token.                                               *)
(***************************************************************************)
\* the run is one of a command that needs a token, and neither VECTOR_API_KEY
\* nor credentials.json provides one
NeedsTokenHasNone ==
    /\ Exited /\ env # NoEnv
    /\ cmd \in ClientCommands \cup {McpSetup}
    /\ ~ProvidedToken.some

\* a command that needs a token is never further than its start without one
TokenBeforeAnything ==
    (env # NoEnv /\ cmd \in ClientCommands \cup {McpSetup} /\ (RequestSent \/ written # <<>>))
        => ProvidedToken.some

\* C17 as stated: a command that needs an authenticated client, and
\* `mcp setup`, fails with Unauthorized and exit code 2 when neither
\* VECTOR_API_KEY nor the credentials file provides a token, before any request
\* is sent and any file is written.
C17_UnauthorizedWithoutToken ==
    /\ TokenBeforeAnything
    /\ NeedsTokenHasNone =>
          /\ ~result.ok /\ result.e.kind = "Unauthorized" /\ exitCode = 2
          /\ attempts = 0 /\ written = <<>>

\* the files the command loads before it looks for the token can be loaded
LoadsBeforeToken == IF cmd = McpSetup THEN CredentialsLoad ELSE ConfigLoads /\ CredentialsLoad

\* C17: when neither VECTOR_API_KEY nor the credentials file provides a token,
\* a command that needs an authenticated client, and `mcp setup`, fails before
\* any request is sent and any file is written: with Unauthorized and exit
\* code 2 when config.json and credentials.json (credentials.json alone for
\* `mcp setup`) are missing or load, with ConfigError and exit code 1 when one
\* of them, or the config directory, cannot be had.
C17_FailsBeforeRequestWithoutToken ==
    /\ TokenBeforeAnything
    /\ NeedsTokenHasNone =>
          /\ attempts = 0 /\ written = <<>> /\ req = NoReq /\ client = NoClient
          /\ ~result.ok /\ raised = <<result.e>>
          /\ IF LoadsBeforeToken
             THEN result.e.kind = "Unauthorized" /\ exitCode = 2
             ELSE result.e.kind = "ConfigError" /\ exitCode = 1

\* `site list` with no VECTOR_API_KEY and no credentials file
C17_Witness ==
    /\ Exited /\ cmd.name = "site list" /\ env.envKey = None /\ credsFile.st = "missing"
    /\ env.dirKnown /\ env.configFile.st = "missing"
    /\ result.e.kind = "Unauthorized" /\ exitCode = 2 /\ attempts = 0 /\ written = <<>>
    /\ stderr = <<"Error: Authentication failed: Not logged in. Run 'vector auth login' to authenticate.">>

\* the token the request of this run carries
RequestToken == req.headers.authorization

\* C18 as stated: the token used for a request is the value of VECTOR_API_KEY
\* whenever it is set, and the api_key of the credentials file only when it is
\* not.
C18_EnvironmentTokenFirst ==
    (RequestSent /\ env # NoEnv) =>
        /\ ProvidedToken.some
        /\ RequestToken = Some("Bearer " \o ProvidedToken.v)

\* C18: the token used for a request of any command but `auth login` is the
\* value of VECTOR_API_KEY whenever it is set, and the api_key of the
\* credentials file only when it is not; `auth login` sends its request with
\* the token it was given, whether VECTOR_API_KEY is set or not.
C18_EnvironmentTokenFirstButLogin ==
    (RequestSent /\ env # NoEnv) =>
        IF cmd = Login
        THEN RequestToken = Some("Bearer " \o LoginToken)
        ELSE /\ env.envKey.some => RequestToken = Some("Bearer " \o env.envKey.v)
             /\ ~env.envKey.some =>
                   /\ credsFile.st = "ok" /\ credsFile.api_key.some
                   /\ RequestToken = Some("Bearer " \o credsFile.api_key.v)

\* VECTOR_API_KEY and a stored api_key: the request carries the former
C18_Witness ==
    /\ pc = "sending" /\ cmd.name = "site show"
    /\ env.envKey = Some("vk_env_token") /\ credsFile.api_key = Some("vk_file_token")
    /\ RequestToken = Some("Bearer vk_env_token")

\* `auth status` has ended with its arguments and environment still known,
\* and neither VECTOR_API_KEY nor credentials.json provides a token
StatusWithoutToken ==
    /\ Exited /\ env # NoEnv /\ cmd = AuthStatus
    /\ ~ProvidedToken.some

\* `auth status` sends its request only with a token
StatusRequestHasToken ==
    (cmd = AuthStatus /\ RequestSent /\ env # NoEnv) => ProvidedToken.some

\* what `auth status` prints when it has no token
NotAuthenticated ==
    IF format = "Json"
    THEN <<"{\"authenticated\": false, \"message\": \"Not logged in\"}">>
    ELSE <<"Not logged in. Run 'vector auth login' to authenticate.">>

\* C19 as stated: `auth status` with no token available sends no request,
\* reports not-authenticated (in Json an object with authenticated: false) and
\* exits 0.
C19_StatusWithoutTokenExitsZero ==
    /\ StatusRequestHasToken
    /\ StatusWithoutToken =>
          /\ attempts = 0 /\ req = NoReq
          /\ result.ok /\ exitCode = 0
          /\ stdout = NotAuthenticated /\ stderr = <<>>

\* C19: `auth status` with no token available sends no request; when
\* config.json and credentials.json are missing or load, it reports
\* not-authenticated (in Json an object with authenticated: false) and exits 0
\* rather than failing with Unauthorized; when one of them cannot be read or
\* parsed, or the config directory cannot be determined, it fails with
\* ConfigError and exit code 1.
C19_StatusWithoutTokenReports ==
    /\ StatusRequestHasToken
    /\ StatusWithoutToken =>
          /\ attempts = 0 /\ req = NoReq /\ client = NoClient /\ written = <<>>
          /\ IF ConfigLoads /\ CredentialsLoad
             THEN /\ result.ok /\ exitCode = 0 /\ raised = <<>>
                  /\ stdout = NotAuthenticated /\ stderr = <<>>
             ELSE /\ ~result.ok /\ result.e.kind = "ConfigError" /\ exitCode = 1
                  /\ stdout = <<>>

\* --json, no VECTOR_API_KEY, no config directory content: authenticated false
C19_Witness ==
    /\ StatusWithoutToken /\ env.json_flag /\ credsFile.st = "missing"
    /\ env.configFile.st = "missing" /\ env.dirKnown
    /\ stdout = <<"{\"authenticated\": false, \"message\": \"Not logged in\"}">>
    /\ exitCode = 0 /\ attempts = 0

(***************************************************************************)
(* Direct database import.                                                 *)
(***************************************************************************)
\* sub occurs in s
Contains(s, sub) ==
    \E i \in 1..(Len(s) - Len(sub) + 1) : SubSeq(s, i, i + Len(sub) - 1) = sub

\* `db import` or `env db import` has its client and has entered the import
DirectImport ==
    /\ cmd \in {DbImport, EnvDbImport} /\ env # NoEnv /\ client # NoClient

\* C20: a direct import (`db import`, `env db import`, once the command has
\* its client) of a file larger than 50 * 1024 * 1024 bytes is rejected before
\* any request is made, with an Other error and exit code 1 whose message
\* names the 50MB limit and the import-session command; so is a file whose
\* metadata cannot be read; the upload is sent only for a file whose size was
\* read and is at most the limit, and a file of exactly the limit is not
\* refused for its size.
C20_LargeImportRejectedLocally ==
    /\ (DirectImport /\ Exited /\ env.meta.ok /\ env.meta.len > 50 * 1024 * 1024) =>
          /\ attempts = 0 /\ req = NoReq /\ net = "none"
          /\ ~result.ok /\ result.e.kind = "Other" /\ exitCode = 1
          /\ raised = <<result.e>>
          /\ Contains(result.e.msg, "50MB")
          /\ Contains(result.e.msg, IF cmd = EnvDbImport THEN "'env db import-session'"
                                    ELSE "'import-session'")
          /\ stderr = <<"Error: " \o result.e.msg>>
    /\ (DirectImport /\ Exited /\ ~env.meta.ok) =>
          /\ attempts = 0 /\ req = NoReq
          /\ ~result.ok /\ result.e.kind = "Other" /\ exitCode = 1
          /\ ~Contains(result.e.msg, "50MB")
    /\ (DirectImport /\ RequestSent) =>
          /\ env.meta.ok /\ env.meta.len <= 50 * 1024 * 1024
          /\ req.method = "POST" /\ attempts = 1
    /\ (DirectImport /\ Exited /\ env.meta.ok /\ env.meta.len <= 50 * 1024 * 1024) =>
          result.ok \/ ~Contains(result.e.msg, "50MB")

\* `env db import` of a file one byte over the limit
C20_Witness ==
    /\ DirectImport /\ Exited /\ cmd = EnvDbImport
    /\ env.meta = [ok |-> TRUE, len |-> 52428801]
    /\ attempts = 0 /\ exitCode = 1
    /\ result.e = [kind |-> "Other",
                   msg |-> "File too large for direct import. Use 'env db import-session' for files over 50MB."]

(***************************************************************************)
(* Claims on local recovery, local configuration and the local files       *)
(***************************************************************************)

\* the line print_json writes to standard error when serialization fails
IsSerializationReport(line) == StartsWith(line, "Error serializing JSON: ")

\* C21: the only error a command recovers from locally is a serialization
\* failure inside print_json: every error that was discarded while the command
\* went on is such a failure, it is reported on standard error, and the process
\* still exits with the code of the operation's result (0 when it succeeded).
C21_OnlySerializationRecovered ==
    /\ \A i \in 1..Len(caught) : IsSerializationReport(caught[i])
    /\ Exited =>
          /\ \A i \in 1..Len(caught) : \E j \in 1..Len(stderr) : stderr[j] = caught[i]
          /\ exitCode = IF result.ok THEN 0 ELSE exit_code(result.e)

\* config.json, credentials.json: there, but not to be read or not to be parsed
\* (credentials.json as the run found it: the run has not written to it)
BrokenConfig == env # NoEnv /\ env.configFile.st \in {"unreadable", "invalid"}
BrokenCredentials == credsFile.st \in {"unreadable", "invalid"} /\ written = <<>>
\* the run failed with ConfigError before anything was sent
ConfigErrorBeforeRequest ==
    /\ ~result.ok /\ result.e.kind = "ConfigError" /\ exitCode = 1
    /\ raised = <<result.e>>
    /\ attempts = 0 /\ req = NoReq /\ net = "none"
\* the client of this run holds a token that is no header value
TokenNoHeaderValue ==
    client # NoClient /\ client.token.some /\ ~IsHeaderValue("Bearer " \o client.token.v)

\* C22 as stated: a run whose config.json or credentials.json is there but
\* cannot be read or parsed, whose login token is empty, or whose token is no
\* header value ends with ConfigError and exit code 1 and has sent no request.
C22_MisconfigurationBeforeRequest ==
    Exited =>
        /\ (BrokenConfig \/ BrokenCredentials) => ConfigErrorBeforeRequest
        /\ (cmd = Login /\ env # NoEnv /\ env.token = Some("")) => ConfigErrorBeforeRequest
        /\ (cmd \in Commands /\ TokenNoHeaderValue) => ConfigErrorBeforeRequest

\* C22 (amended): a config.json that is there but cannot be read or parsed
\* fails every command that loads it with ConfigError, exit code 1, before any
\* request; so does such a credentials.json for every command but `auth login`,
\* which loads it only after its validating request has succeeded and fails
\* then, with ConfigError and exit code 1, the file left as it was; an empty
\* login token fails with ConfigError before any request; a token that is no
\* header value is never sent, and the operation that builds the headers fails
\* with ConfigError; files that do not exist load as the empty default (no
\* api_url: the default base URL; no api_key: Unauthorized without
\* VECTOR_API_KEY).
C22_MisconfigurationIsConfigError ==
    /\ (Exited /\ BrokenConfig) => ConfigErrorBeforeRequest
    /\ (Exited /\ BrokenCredentials /\ cmd # Login) => ConfigErrorBeforeRequest
    /\ (Exited /\ BrokenCredentials /\ cmd = Login) =>
          /\ ~result.ok /\ written = <<>>
          /\ (BodyRead /\ is_success(status) /\ body.json) =>
                /\ result.e.kind = "ConfigError" /\ exitCode = 1 /\ attempts = 1
                /\ StartsWith(result.e.msg, "Failed to ")
    /\ (Exited /\ cmd = Login /\ env # NoEnv /\ LoginToken = "") => ConfigErrorBeforeRequest
    /\ RequestSent => ~TokenNoHeaderValue
    /\ (Exited /\ cmd \in Commands \cup {Login} /\ TokenNoHeaderValue) =>
          ConfigErrorBeforeRequest
    /\ (pc \in {"sending", "exited"} /\ env # NoEnv /\ cmd \in ClientCommands /\ env.dirKnown
          /\ env.configFile.st = "missing" /\ credsFile.st = "missing") =>
          IF ~env.envKey.some
          THEN /\ Exited /\ ~result.ok /\ result.e.kind = "Unauthorized" /\ attempts = 0
          ELSE env.engineOk =>
                  client.base_url = DEFAULT_BASE_URL /\ client.token = env.envKey

\* `auth login` found a credentials.json it could not parse, after its request
\* had been answered with 200 and a JSON body
C22_Witness ==
    /\ Exited /\ cmd = Login /\ credsFile.st = "invalid"
    /\ attempts = 1 /\ status = 200 /\ body.json
    /\ ~result.ok /\ result.e.kind = "ConfigError"
    /\ StartsWith(result.e.msg, "Failed to parse credentials: ")
    /\ exitCode = 1 /\ written = <<>>

\* the run was a successful `mcp setup`
SetupDone == Exited /\ cmd = McpSetup /\ result.ok
\* the entries of mcpServers in a file that is there and holds an object
ServersOf(file) ==
    IF file.st = "ok" /\ HasKey(file.val, "mcpServers") /\ Get(file.val, "mcpServers").t = "obj"
    THEN Get(file.val, "mcpServers").m ELSE <<>>
\* the top-level members of a file that is there and holds an object
FieldsOf(file) == IF file.st = "ok" /\ file.val.t = "obj" THEN file.val.m ELSE <<>>
\* the member is among the members, with its value
Kept(member, members) == \E j \in 1..Len(members) : members[j] = member

\* C23: after a successful `mcp setup` every entry of mcpServers but `vector`
\* and every top-level field but mcpServers that the Claude Desktop config
\* held before is in the file with the value it had, mcpServers.vector is
\* there, and the file holds nothing else.
C23_SetupPreservesOtherContent ==
    SetupDone =>
        /\ claudeFile.st = "ok" /\ claudeFile.val.t = "obj"
        /\ written = <<ClaudePath>>
        /\ \A i \in 1..Len(FieldsOf(env.claude)) :
              FieldsOf(env.claude)[i][1] # "mcpServers" =>
                 Kept(FieldsOf(env.claude)[i], FieldsOf(claudeFile))
        /\ \A i \in 1..Len(ServersOf(env.claude)) :
              ServersOf(env.claude)[i][1] # "vector" =>
                 Kept(ServersOf(env.claude)[i], ServersOf(claudeFile))
        /\ \E j \in 1..Len(ServersOf(claudeFile)) : ServersOf(claudeFile)[j][1] = "vector"
        /\ \A j \in 1..Len(FieldsOf(claudeFile)) :
              FieldsOf(claudeFile)[j][1] # "mcpServers" =>
                 Kept(FieldsOf(claudeFile)[j], FieldsOf(env.claude))
        /\ \A j \in 1..Len(ServersOf(claudeFile)) :
              ServersOf(claudeFile)[j][1] # "vector" =>
                 Kept(ServersOf(claudeFile)[j], ServersOf(env.claude))
        /\ Cardinality({FieldsOf(claudeFile)[j][1] : j \in 1..Len(FieldsOf(claudeFile))})
              = Len(FieldsOf(claudeFile))
        /\ Cardinality({ServersOf(claudeFile)[j][1] : j \in 1..Len(ServersOf(claudeFile))})
              = Len(ServersOf(claudeFile))

\* `mcp setup --force` replaced the vector entry of a file that had another
\* server and another top-level field
C23_Witness ==
    /\ SetupDone /\ env.force
    /\ Kept(<<"other-server", OtherServer>>, ServersOf(env.claude))
    /\ Kept(<<"vector", OldVector>>, ServersOf(env.claude))
    /\ Len(FieldsOf(env.claude)) = 2
    /\ Kept(<<"other-server", OtherServer>>, ServersOf(claudeFile))
    /\ Kept(<<"vector", vector_config("vk_env_token")>>, ServersOf(claudeFile))
    /\ Len(ServersOf(claudeFile)) = 2 /\ Len(FieldsOf(claudeFile)) = 2

\* a step of an `auth login` run
LoginStep == (pc = "invoked" /\ env.cmd = Login) \/ (cmd = Login /\ pc # "exited")

\* C24: `auth login` writes to the credentials file only after its one request,
\* GET /api/v1/vector/user, has been answered with a status in 200..299 and a
\* body that is JSON; in every other login run (no token, no request sent, send
\* failure, another status, a body that cannot be read or is no JSON) no step
\* changes the credentials file; a login that succeeds leaves the file with the
\* token as its api_key.
C24_TokenStoredAfterValidation ==
    /\ []((cmd = Login /\ written # <<>>) =>
             /\ BodyRead /\ is_success(status) /\ body.json /\ attempts = 1
             /\ req.method = "GET" /\ req.url = client.base_url \o "/api/v1/vector/user")
    /\ []((Exited /\ cmd = Login /\ result.ok) =>
             /\ written = <<"credentials.json">>
             /\ client.token.some /\ client.token.v # ""
             /\ credsFile = saved(client.token))
    /\ [][(LoginStep /\ credsFile' # credsFile) =>
             /\ pc = "reading" /\ is_success(status) /\ body'.json /\ net' = "body"
             /\ written' = <<"credentials.json">>]_vars

\* a login whose request was answered with 200 and a JSON body has stored its
\* token
C24_Witness ==
    /\ Exited /\ cmd = Login /\ result.ok /\ status = 200 /\ body.json
    /\ client.token = Some("vk_file_token")
    /\ credsFile = [st |-> "ok", api_key |-> Some("vk_file_token")]
    /\ written = <<"credentials.json">>

\* what `auth logout` prints when no api_key is stored
NotLoggedIn ==
    IF format = "Json" THEN Render(JObj(<< <<"message", JStr("Not logged in")>> >>))
    ELSE "Not logged in."
\* credentials.json is missing or loads, and holds no api_key
NoKeyStored == credsFile.st \in {"missing", "ok"} /\ ~credsFile.api_key.some
\* a run of a command that gets its client from get_client, with no
\* VECTOR_API_KEY, finding no api_key stored
FollowingCommand ==
    /\ pc \in {"sending", "exited"} /\ env # NoEnv /\ cmd \in ClientCommands
    /\ ~env.envKey.some /\ NoKeyStored
\* the file is left alone between the runs; only `auth login` and `auth logout`
\* change it
OnlyLoginAndLogoutWrite ==
    [][credsFile' # credsFile =>
          \/ cmd = Login /\ pc = "reading"
          \/ pc = "invoked" /\ env.cmd = Logout]_vars
\* a successful `auth logout` leaves no api_key; run with none stored, it
\* writes nothing, says so and exits 0
LogoutLeavesNoKey ==
    /\ (Exited /\ cmd = Logout /\ result.ok) =>
          /\ NoKeyStored /\ exitCode = 0 /\ attempts = 0 /\ stderr = <<>>
          /\ written \in {<<>>, <<"credentials.json">>}
          /\ written = <<>> <=> stdout = <<NotLoggedIn>>
    /\ (Exited /\ cmd = Logout /\ env.dirKnown /\ NoKeyStored /\ written = <<>>) =>
          /\ result.ok /\ exitCode = 0 /\ stdout = <<NotLoggedIn>> /\ raised = <<>>

\* C25 as stated: a successful `auth logout` leaves the credentials file
\* without an api_key, so that a following command that needs a client, run
\* without VECTOR_API_KEY, fails with Unauthorized and exit code 2 and sends no
\* request; `auth logout` run with no api_key stored writes nothing, prints
\* "Not logged in" and exits 0.
C25_LogoutThenUnauthorized ==
    /\ LogoutLeavesNoKey
    /\ FollowingCommand =>
          /\ Exited /\ ~result.ok /\ result.e.kind = "Unauthorized" /\ exitCode = 2
          /\ attempts = 0 /\ req = NoReq

\* C25 (amended): a successful `auth logout` leaves the credentials file
\* without an api_key, and nothing but a login or a logout changes the file, so
\* that a following command that needs a client, run without VECTOR_API_KEY,
\* sends no request and fails: with Unauthorized and exit code 2 when
\* config.json is missing or loads, with ConfigError and exit code 1 when it, or
\* the config directory, cannot be had; `auth logout` run with no api_key
\* stored writes nothing, prints "Not logged in" and exits 0.
C25_LogoutRemovesKey ==
    /\ [](/\ LogoutLeavesNoKey
          /\ FollowingCommand =>
                /\ Exited /\ ~result.ok /\ attempts = 0 /\ req = NoReq /\ written = <<>>
                /\ IF ConfigLoads
                   THEN result.e.kind = "Unauthorized" /\ exitCode = 2
                   ELSE result.e.kind = "ConfigError" /\ exitCode = 1)
    /\ OnlyLoginAndLogoutWrite

\* `auth logout` has removed the stored api_key
C25_Witness ==
    /\ Exited /\ cmd = Logout /\ result.ok /\ exitCode = 0
    /\ written = <<"credentials.json">>
    /\ credsFile = [st |-> "ok", api_key |-> None]
    /\ stdout = <<"Logged out successfully.">>

\* `site delete` has its client: site::delete has been entered
DeleteEntered ==
    cmd = SiteDelete /\ env # NoEnv /\ pc \in {"sending", "exited"} /\ client # NoClient
\* the DELETE of the site was handed to send(), or its headers could not be built
DeleteCalled ==
    \/ /\ RequestSent /\ attempts = 1 /\ req.method = "DELETE"
       /\ req.url = client.base_url \o "/api/v1/vector/sites/site_1"
    \/ /\ Exited /\ ~result.ok /\ result.e = ApiError("ConfigError", "failed to parse header value")
       /\ attempts = 0
\* the prompt of `site delete` was written
Prompted == stderr # <<>> /\ stderr[1] = "Are you sure you want to delete site site_1? [y/N] "

\* C26: `site delete` without --force calls the DELETE only when a line was
\* read from standard input that, trimmed, is "y" or "Y"; after any other
\* input, the end of input or a failed read it sends no request, prints
\* "Aborted." and exits 0; with --force it calls the DELETE without prompting
\* and without reading.
C26_DeleteOnlyOnYes ==
    DeleteEntered =>
        IF env.force THEN DeleteCalled /\ ~Prompted /\ caught = <<>>
        ELSE /\ Prompted
             /\ IF env.stdin.ok /\ eq_ignore_ascii_case(trim(env.stdin.buf), "y")
                THEN DeleteCalled
                ELSE /\ Exited /\ attempts = 0 /\ req = NoReq
                     /\ result.ok /\ exitCode = 0 /\ stdout = <<"Aborted.">>

\* `mcp setup` got as far as its look for an existing entry: it found a token
\* and the path, and the Claude Desktop config is missing or was read and parsed
SetupReached ==
    /\ Exited /\ cmd = McpSetup /\ env # NoEnv
    /\ env.dirKnown /\ (credsFile.st \in {"missing", "ok"}) /\ ProvidedToken.some
    /\ env.claudeDirKnown
    /\ \/ env.claude.st = "missing"
       \/ env.claude.st = "ok" /\ de_ClaudeConfig(env.claude.val).ok
\* the config had an mcpServers.vector entry before the run
HadVector == \E i \in 1..Len(ServersOf(env.claude)) : ServersOf(env.claude)[i][1] = "vector"
\* what a successful `mcp setup` reports first, for the action it has taken
Reported(action) ==
    IF format = "Json"
    THEN Render(JObj(<< <<"action", JStr(action)>>, <<"config_path", JStr(ClaudePath)>>,
                        <<"message", JStr("Vector MCP server " \o action
                                          \o " in Claude Desktop config")>>,
                        <<"success", JBool(TRUE)>> >>))
    ELSE "Vector MCP server " \o action \o " in Claude Desktop config."

\* C27: when the Claude Desktop config has an mcpServers.vector entry, `mcp
\* setup` without --force fails with ConfigError and exit code 1 and leaves the
\* file as it was, unwritten; with --force it replaces the entry with the one
\* for the token and reports "updated"; when there was no entry it adds it and
\* reports "added" (and when the file cannot be written it fails with
\* ConfigError, the file as it was).
C27_SetupKeepsEntryWithoutForce ==
    SetupReached =>
        IF HadVector /\ ~env.force
        THEN /\ ~result.ok /\ exitCode = 1 /\ raised = <<result.e>> /\ stdout = <<>>
             /\ result.e = ApiError("ConfigError",
                              "Vector MCP server already configured. Use --force to overwrite.")
             /\ written = <<>> /\ claudeFile = env.claude
        ELSE IF ~env.fsOk
        THEN /\ ~result.ok /\ result.e.kind = "ConfigError" /\ exitCode = 1
             /\ written = <<>> /\ claudeFile = env.claude
        ELSE /\ result.ok /\ exitCode = 0 /\ written = <<ClaudePath>>
             /\ Kept(<<"vector", vector_config(ProvidedToken.v)>>, ServersOf(claudeFile))
             /\ stdout[1] = Reported(IF HadVector THEN "updated" ELSE "added")

\* `mcp setup` without --force found an entry and refused
C27_Witness ==
    /\ SetupReached /\ ~env.force /\ env.fsOk
    /\ Kept(<<"vector", OldVector>>, ServersOf(env.claude))
    /\ ~result.ok /\ exitCode = 1 /\ written = <<>>
    /\ Kept(<<"vector", OldVector>>, ServersOf(claudeFile))

\* the run succeeded in a way that calls no client operation: `auth logout`,
\* `mcp setup`, `auth status` without a token, `site delete` not confirmed
SucceedsLocally ==
    \/ cmd \in {Logout, McpSetup}
    \/ cmd = AuthStatus /\ env # NoEnv /\ ~ProvidedToken.some
    \/ cmd = SiteDelete /\ env # NoEnv /\ ~env.force /\ stdout = <<"Aborted.">>

\* C28 as stated: a run sends at most one request; a run that succeeds has
\* called exactly one client operation; once an error has been raised the run
\* is over, so that no request follows it.
C28_ExactlyOneOperation ==
    /\ attempts <= 1
    /\ (Exited /\ result.ok) => attempts = 1
    /\ raised # <<>> => Exited

\* C28 (amended): a run sends at most one request; a run that succeeds has
\* called exactly one client operation unless it is one of `auth logout`, `mcp
\* setup`, `auth status` without a token or a `site delete` that was not
\* confirmed, which succeed without any; `auth logout` and `mcp setup` never
\* call one; the request is sent in the first step of the command, before any
\* error has been raised, and once an error has been raised the run is over.
C28_AtMostOneRequest ==
    /\ [](/\ attempts <= 1
          /\ Len(raised) <= 1
          /\ raised # <<>> => Exited /\ ~result.ok
          /\ (Exited /\ result.ok) => (attempts = 0 <=> SucceedsLocally)
          /\ cmd \in {Logout, McpSetup} => attempts = 0 /\ req = NoReq)
    /\ [][attempts' > attempts =>
             /\ pc = "invoked" /\ pc' = "sending" /\ attempts = 0 /\ attempts' = 1
             /\ raised = <<>> /\ raised' = <<>> /\ req = NoReq /\ req' # NoReq]_vars

\* a resource command has succeeded with its one request
C28_Witness ==
    /\ Exited /\ cmd \in Commands /\ result.ok /\ exitCode = 0
    /\ attempts = 1 /\ status = 200 /\ req.method = "GET" /\ raised = <<>>

\* a command that decodes its response as a serde_json::Value got a status in
\* 200..299 and a body that is JSON, and the run is over
GenericDecoded ==
    /\ Exited /\ BodyRead /\ cmd \in ClientCommands
    /\ is_success(status) /\ body.json
\* the shapes the table views refuse
DataNoArray == cmd.view = "list" /\ Index(body.val, "data").t # "arr"
ImportNotDone ==
    /\ cmd.view = "import"
    /\ ~(Index(Index(body.val, "data"), "success").t = "bool"
         /\ Index(Index(body.val, "data"), "success").b)
ImportError ==
    IF Index(Index(body.val, "data"), "error").t = "str"
    THEN Index(Index(body.val, "data"), "error").s ELSE "Import failed"

\* C29: in Json mode a command that decodes its response as generic JSON
\* prints the decoded response and exits 0 for every status in 200..299 with a
\* JSON body, whatever its shape; such a response makes the command fail only
\* in Table mode, with Other and exit code 1: "Invalid response format" when
\* `data` is no array in a list command, `data.error` or "Import failed" when
\* `data.success` is not true in a direct import; and in Table mode these
\* shapes do fail, so that the exit code differs between the modes.
C29_JsonModeIgnoresShape ==
    GenericDecoded =>
        /\ format = "Json" =>
              /\ result.ok /\ exitCode = 0 /\ raised = <<>> /\ ErrorLines = <<>>
              /\ stdout = <<Render(body.val)>>
        /\ ~result.ok =>
              /\ format = "Table" /\ result.e.kind = "Other" /\ exitCode = 1
              /\ \/ DataNoArray /\ result.e.msg = "Invalid response format"
                 \/ ImportNotDone /\ result.e.msg = ImportError
        /\ (format = "Table" /\ (DataNoArray \/ ImportNotDone)) => ~result.ok /\ exitCode = 1

\* a list command in Json mode got a 200 whose `data` is no array, printed it
\* and exited 0
C29_Witness ==
    /\ GenericDecoded /\ format = "Json" /\ status = 200
    /\ DataNoArray /\ HasKey(body.val, "data")
    /\ result.ok /\ exitCode = 0 /\ stdout = <<body.text>>

\* C30: after every Credentials::save that returned Ok, in a login or a
\* logout, credentials.json has mode 0600 and holds what was saved, and the
\* config directory is there: with mode 0700 when the save created it, with
\* the mode it had when it was there before; no login or logout, whatever its
\* outcome, changes the mode of a directory that was there.
C30_ModesAfterSave ==
    /\ saves # <<>> => fs = saves[Len(saves)].after
    /\ \A i \in 1..Len(saves) :
          /\ saves[i].save = "ok" =>
                /\ saves[i].res.ok
                /\ saves[i].after.file.st = "ok" /\ saves[i].after.file.mode = 384
                /\ saves[i].after.file.api_key
                      = IF saves[i].op = "login" THEN Some("vk_new_token") ELSE None
                /\ saves[i].after.dir.there
                /\ ~saves[i].before.dir.there => saves[i].after.dir.mode = 448
          /\ saves[i].before.dir.there => saves[i].after.dir = saves[i].before.dir
          /\ saves[i].save = "none" => saves[i].after = saves[i].before

\* a login saved into a directory it had to create, and a logout followed that
\* saved into the directory as it was
C30_Witness ==
    /\ Len(saves) = 2
    /\ saves[1].op = "login" /\ saves[1].save = "ok" /\ ~saves[1].before.dir.there
    /\ saves[1].after = [dir |-> [there |-> TRUE, mode |-> 448],
                         file |-> [st |-> "ok", api_key |-> Some("vk_new_token"),
                                   mode |-> 384]]
    /\ saves[2].op = "logout" /\ saves[2].save = "ok"
    /\ fs = [dir |-> [there |-> TRUE, mode |-> 448],
             file |-> [st |-> "ok", api_key |-> None, mode |-> 384]]

====
